---- MODULE Spec2Model ----
(***************************************************************************)
(* The App Store Connect exporter, src/app-store-exporter/exporter.py.    *)
(*                                                                         *)
(* A background thread runs _run_metrics_collection in a loop.  A cycle    *)
(* clears the metric store, runs _process_analytics_data for every         *)
(* configured application and metric definition, and judges the cycle in   *)
(* the health state.  _process_analytics_data pools the rows of every      *)
(* in-window report instance, deduplicates them in two stages and writes   *)
(* one sample per surviving row with _export_metrics.                      *)
(*                                                                         *)
(* Texts are TLA+ strings, joined with \o as the code joins them.  Python  *)
(* None is the reserved text None (no vendor text of the model equals it). *)
(* Times are seconds since the Unix epoch; the model's dates lie in        *)
(* January 1970 so that millisecond timestamps stay exact in TLC's         *)
(* integers.                                                               *)
(***************************************************************************)
EXTENDS Integers, Sequences, FiniteSets, TLC

\* ------------------------------------------------------------------ bounds
\* Collection cycles the background loop runs before the model stops it.
MaxCycles == 3
\* Rows the vendor returns for one candidate report, over all instances.
MaxPoolRows == 3
\* Instances the vendor lists for one report when their dates vary.
MaxInstances == 2
\* The clock at process start: 1970-01-16T00:00:00Z.
StartTime == 1296000

\* ------------------------------------------------------- program constants
DAYS_TO_FETCH == 14
COLLECTION_INTERVAL == 43200

None == "<None>"
NoneTime == 0 - 1
SecondsPerDay == 24 * 60 * 60

APPS ==
  << [id |-> "1", name |-> "app1", bundle_id |-> "app1"],
     [id |-> "2", name |-> "app2", bundle_id |-> "app2"] >>

NoRowFilter == [column |-> None, equals |-> None]

METRICS ==
  << [key |-> "daily_user_installs",
      prom_name |-> "appstore_daily_user_installs_v2",
      labels |-> << <<"country", "Territory">>,
                    <<"platform_version", "Platform Version">>,
                    <<"source_type", "Source Type">> >>,
      report_type |-> "App Downloads Standard",
      value_patterns |-> <<"Counts">>,
      granularity |-> "DAILY",
      row_filter |-> [column |-> "Download Type", equals |-> "First-time download"]],
     [key |-> "daily_user_non_first_time_installs",
      prom_name |-> "appstore_daily_user_non_first_time_installs_v2",
      labels |-> << <<"country", "Territory">>,
                    <<"platform_version", "Platform Version">>,
                    <<"source_type", "Source Type">> >>,
      report_type |-> "App Downloads Standard",
      value_patterns |-> <<"Counts">>,
      granularity |-> "DAILY",
      row_filter |-> [column |-> "Download Type", equals |-> "Redownload"]],
     [key |-> "active_devices",
      prom_name |-> "appstore_active_devices_v2",
      labels |-> << <<"country", "Territory">>,
                    <<"device", "Device">>,
                    <<"platform_version", "Platform Version">>,
                    <<"source_type", "Source Type">> >>,
      report_type |-> "App Sessions Standard",
      value_patterns |-> <<"Unique Devices">>,
      granularity |-> "DAILY",
      row_filter |-> NoRowFilter],
     [key |-> "uninstalls",
      prom_name |-> "appstore_uninstalls_v2",
      labels |-> << <<"country", "Territory">>,
                    <<"device", "Device">>,
                    <<"platform_version", "Platform Version">>,
                    <<"source_type", "Source Type">> >>,
      report_type |-> "App Store Installation and Deletion Standard",
      value_patterns |-> <<"Counts">>,
      granularity |-> "WEEKLY",
      row_filter |-> [column |-> "Event", equals |-> "Delete"]] >>

ERRORS_METRIC == "appstore_exporter_parsing_errors_total"
LAST_COLLECTION_METRIC == "appstore_exporter_last_collection_timestamp"

\* -------------------------------------------------------------------- texts
\* Python's truth value of a text or None.
Truthy(v) == v # None /\ v # ""

\* str(v) and f"{v}".
Str(v) == IF v = None THEN "None" ELSE v

\* sep.join(parts)
RECURSIVE Join(_, _)
Join(parts, sep) ==
  IF parts = << >> THEN ""
  ELSE IF Len(parts) = 1 THEN parts[1]
  ELSE parts[1] \o sep \o Join(Tail(parts), sep)

\* The texts of the model longer than 10 characters, with their first 10.
First10 ==
  [s \in {"1970-01-15T00:00:00Z", "1970-01-02T23:59:59Z", "1970-01-01T23:59:59Z",
          "1970-01-14_Device=iPhone"} |->
     CASE s = "1970-01-15T00:00:00Z" -> "1970-01-15"
       [] s = "1970-01-14_Device=iPhone" -> "1970-01-14"
       [] s = "1970-01-02T23:59:59Z" -> "1970-01-02"
       [] s = "1970-01-01T23:59:59Z" -> "1970-01-01"]

\* s[:10]
Trunc10(s) == IF Len(s) <= 10 THEN s ELSE First10[s]

\* s.strip(): the model's only text with outer blanks is " 1970-01-14 ".
Strip(s) == IF s = " 1970-01-14 " THEN "1970-01-14" ELSE s

TwoDigits ==
  << "01", "02", "03", "04", "05", "06", "07", "08", "09", "10",
     "11", "12", "13", "14", "15", "16", "17", "18", "19", "20" >>

\* date.isoformat() of the day `day` days after the epoch (January 1970).
IsoDate(day) == "1970-01-" \o TwoDigits[day + 1]

\* Every text the model compares with <, >= or sorts by, in Python's text order.
TextOrder ==
  << "",
     "1970-01-01", "1970-01-01T23:59:59Z",
     "1970-01-02", "1970-01-02T23:59:59Z",
     "1970-01-03", "1970-01-04", "1970-01-05", "1970-01-06", "1970-01-07",
     "1970-01-08", "1970-01-09", "1970-01-10", "1970-01-11", "1970-01-12",
     "1970-01-13", "1970-01-14",
     "1970-01-15", "1970-01-15T00:00:00Z",
     "1970-01-16", "1970-01-17", "1970-01-18", "1970-01-19", "1970-01-20",
     "n/a" >>

TextRank(s) == CHOOSE i \in 1..Len(TextOrder) : TextOrder[i] = s

\* a >= b and a < b on texts.
TextGE(a, b) == TextRank(a) >= TextRank(b)
TextLT(a, b) == TextRank(a) < TextRank(b)

Unparseable == 0 - 1

\* _parse_iso_date: the epoch day of a date text, or Unparseable (ValueError).
ParseIsoDate(s) ==
  IF \E d \in 0..(Len(TwoDigits) - 1) : IsoDate(d) = s
    THEN CHOOSE d \in 0..(Len(TwoDigits) - 1) : IsoDate(d) = s
    ELSE Unparseable

\* _extract_number: float(value) with thousands separators removed, 0.0 for
\* an empty or non-numeric text.
ExtractNumber(value) ==
  IF ~Truthy(value) THEN 0
  ELSE CASE value = "5" -> 5
         [] value = "7" -> 7
         [] value = "9" -> 9
         [] value = "-3" -> 0 - 3
         [] value = "1,000" -> 1000
         [] OTHER -> 0

\* --------------------------------------------------------------------- rows
\* A row record is a function from column names to texts.  A CSV line with
\* more fields than the header carries the extra fields under the key None
\* (csv.DictReader's restkey); _parse_csv_bytes keeps that key.
NoneKey == None

\* The column names of the model in Python's sorted() order.  No name is a
\* prefix of another, so the texts "column=value" sort as their columns do.
ColumnOrder ==
  << "Counts", "Date", "Device", "Download Type", "Event", "Platform Version",
     "Processing Date", "Source Type", "Territory", "Unique Devices",
     "__segment_end", "__segment_id", "__segment_start" >>

\* k.startswith("__")
IsMeta(k) == k \in {"__segment_end", "__segment_id", "__segment_start"}

\* row.get(k) and row.get(k, default)
Get(row, k) == IF k \in DOMAIN row THEN row[k] ELSE None
GetOr(row, k, default) == IF k \in DOMAIN row THEN row[k] ELSE default

\* The keys of sorted(row.items()); sorted() raises TypeError on a row that
\* holds the key None beside text keys.
SortRaises(row) == NoneKey \in DOMAIN row
SortedKeys(row) == SelectSeq(ColumnOrder, LAMBDA k : k \in DOMAIN row)

\* Lines 1031-1035: "|".join of "k=v" over the non-metadata columns.
InstanceUniqueKey(row) ==
  LET ks == SelectSeq(SortedKeys(row), LAMBDA k : ~IsMeta(k))
  IN Join([i \in 1..Len(ks) |-> ks[i] \o "=" \o Str(row[ks[i]])], "|")

\* A stage that keeps every row of the instance.
DedupInstanceKeepAll(instance_rows, seen, unique_rows) ==
  [raised |-> \E i \in 1..Len(instance_rows) : SortRaises(instance_rows[i]),
   seen |-> seen, unique_rows |-> unique_rows \o instance_rows]

\* Lines 1028-1041: the rows of one instance not seen before, and the seen
\* keys after them.  r.raised: a row made sorted() raise.
RECURSIVE DedupInstance(_, _, _)
DedupInstance(instance_rows, seen, unique_rows) ==
  IF instance_rows = << >>
    THEN [raised |-> FALSE, seen |-> seen, unique_rows |-> unique_rows]
  ELSE LET row == Head(instance_rows) IN
    IF SortRaises(row)
      THEN [raised |-> TRUE, seen |-> seen, unique_rows |-> unique_rows]
    ELSE LET unique_key == InstanceUniqueKey(row) IN
      IF unique_key \notin seen
        THEN DedupInstance(Tail(instance_rows), seen \cup {unique_key},
                           Append(unique_rows, row))
        ELSE DedupInstance(Tail(instance_rows), seen, unique_rows)

MetricConfig(metric_name) ==
  CHOOSE i \in 1..Len(METRICS) : METRICS[i].key = metric_name

\* Lines 1113-1120: the label columns the row lacks.
MissingLabels(row, metric_name) ==
  LET m == METRICS[MetricConfig(metric_name)]
  IN { m.labels[i][2] : i \in { j \in 1..Len(m.labels) : ~Truthy(Get(row, m.labels[j][2])) } }

\* Lines 1129-1133: the row filter rejects the row.
RowFiltered(row, row_filter) ==
  /\ row_filter # NoRowFilter
  /\ Truthy(row_filter.column)
  /\ row_filter.equals # None
  /\ Get(row, row_filter.column) # row_filter.equals

\* Lines 1106-1135: the rows that have every label column and pass the filter.
FilteredRows(rows, metric_name, row_filter) ==
  SelectSeq(rows, LAMBDA row :
    MissingLabels(row, metric_name) = {} /\ ~RowFiltered(row, row_filter))

\* Lines 1148-1150: the schema signature.
SchemaCols(row) == SelectSeq(SortedKeys(row), LAMBDA k : ~IsMeta(k))

\* Lines 1146-1153: rows_by_schema, a dict in insertion order, as the
\* sequence of its (schema_cols, rows) items.
RECURSIVE GroupBySchema(_, _)
GroupBySchema(filtered_rows, groups) ==
  IF filtered_rows = << >> THEN groups
  ELSE LET row == Head(filtered_rows)
           sc == SchemaCols(row)
           at == { i \in 1..Len(groups) : groups[i].schema_cols = sc }
       IN IF at = {}
            THEN GroupBySchema(Tail(filtered_rows),
                   Append(groups, [schema_cols |-> sc, rows |-> <<row>>]))
            ELSE LET i == CHOOSE j \in at : TRUE IN
                 GroupBySchema(Tail(filtered_rows),
                   [groups EXCEPT ![i].rows = Append(@, row)])

\* Lines 1172-1178: the effective date of a row.
DateVal(row, processing_date) ==
  LET d1 == Get(row, "Date")
      d2 == Get(row, "Processing Date")
      d3 == Get(row, "__segment_start")
      first == IF Truthy(d1) THEN d1
               ELSE IF Truthy(d2) THEN d2
               ELSE IF Truthy(d3) THEN d3
               ELSE IF Truthy(processing_date) THEN processing_date
               ELSE ""
  IN Trunc10(Strip(first))

\* A key that keeps the value column among the dimensions.
SchemaUniqueKeyWithValue(row, schema_cols, value_col, date_val) ==
  LET cols == SelectSeq(schema_cols, LAMBDA col : ~IsMeta(col))
      dimension_keys ==
        [i \in 1..Len(cols) |-> cols[i] \o "=" \o Strip(Str(GetOr(row, cols[i], "")))]
  IN date_val \o "_" \o Join(dimension_keys, "_")

\* Lines 1181-1187: the key of a row inside its schema group.
SchemaUniqueKey(row, schema_cols, value_col, date_val) ==
  LET cols == SelectSeq(schema_cols, LAMBDA col : col # value_col /\ ~IsMeta(col))
      dimension_keys ==
        [i \in 1..Len(cols) |-> cols[i] \o "=" \o Strip(Str(GetOr(row, cols[i], "")))]
  IN date_val \o "_" \o Join(dimension_keys, "_")

\* ---------------------------------------------------------- the metric store
\* _metrics_data is a dict, kept in insertion order: a sequence of entries.
\* A key is a tuple of texts (kind "tuple") or one text (kind "str").
StoreIndex(store, kind, key) ==
  { i \in 1..Len(store) : store[i].kind = kind /\ store[i].key = key }

\* A store that appends on every write.
StorePutAppend(store, kind, key, value, timestamp_ms) ==
  Append(store, [kind |-> kind, key |-> key, value |-> value, ts |-> timestamp_ms])

\* A store that adds the value to the one it holds under the key.
StorePutSum(store, kind, key, value, timestamp_ms) ==
  LET at == StoreIndex(store, kind, key)
  IN IF at = {}
       THEN Append(store, [kind |-> kind, key |-> key, value |-> value,
                           ts |-> timestamp_ms])
       ELSE [store EXCEPT ![CHOOSE i \in at : TRUE].value = @ + value,
                          ![CHOOSE i \in at : TRUE].ts = timestamp_ms]

\* _metrics_data[key] = (value, timestamp_ms)
StorePut(store, kind, key, value, timestamp_ms) ==
  LET at == StoreIndex(store, kind, key)
      e == [kind |-> kind, key |-> key, value |-> value, ts |-> timestamp_ms]
  IN IF at = {} THEN Append(store, e)
     ELSE [store EXCEPT ![CHOOSE i \in at : TRUE] = e]

\* date.today() of a process whose local time is utc_off seconds ahead of UTC.
Today(time, utc_off) == (time + utc_off) \div SecondsPerDay

\* int(dt.datetime.combine(day, dt.time.min).timestamp() * 1000): the naive
\* datetime is read in local time.
MidnightMs(day, utc_off) == (day * SecondsPerDay - utc_off) * 1000

\* A sample stamped with the time of the call.
ExportTimestampNow(row_date, time, utc_off) == time * 1000

\* Lines 880-890.
ExportTimestamp(row_date, time, utc_off) ==
  LET report_date == ParseIsoDate(row_date)
  IN IF report_date # Unparseable
       THEN MidnightMs(report_date, utc_off)
       ELSE MidnightMs(Today(time, utc_off), utc_off)

\* Lines 895-904.
ExportKey(app_info, row, metric_name, row_date) ==
  LET m == METRICS[MetricConfig(metric_name)]
  IN << m.prom_name, app_info.name >>
     \o [i \in 1..Len(m.labels) |-> GetOr(row, m.labels[i][2], "")]
     \o << row_date >>

\* _export_metrics: the store after the call.
ExportMetrics(store, app_info, row, metric_name, value, row_date, time, utc_off) ==
  IF \E i \in 1..Len(METRICS) : METRICS[i].key = metric_name
    THEN StorePut(store, "tuple", ExportKey(app_info, row, metric_name, row_date),
                  value, ExportTimestamp(row_date, time, utc_off))
    ELSE store

\* A clear that keeps nothing.
ClearedStoreNothing(store) == << >>

\* Lines 1310-1319: what the clear at the start of a cycle keeps.
ClearedStore(store) ==
  SelectSeq(store, LAMBDA e :
    e.kind = "tuple" /\ Len(e.key) > 0 /\ e.key[1] = ERRORS_METRIC)

\* Lines 1269-1277: the error counter of (app, report) incremented.
CountParsingError(store, app_name, report_type, time) ==
  LET error_key == << ERRORS_METRIC, app_name, report_type >>
      at == StoreIndex(store, "tuple", error_key)
      current_value == IF at = {} THEN 0 ELSE store[CHOOSE i \in at : TRUE].value
  IN StorePut(store, "tuple", error_key, current_value + 1, time * 1000)


\* ---------------------------------------------------------------- the vendor
\* What the vendor API answers for one application:
\*   api_up    FALSE: every _asc_api_call for the application raises
\*   requests  its report requests, [id, accessType], in listing order
\*   reports   the catalog, [id, name, category], in listing order
\*   instances the instances of each report, by report id, in listing order:
\*             [id, processingDate (a text or None), rows], rows being what
\*             _download_report_segments returns for the instance
\* A comparison that minds the case.
LowerSame(s) == s

\* str.lower() of the report names of the model.
Lower(s) ==
  CASE s = "App Downloads Standard" -> "app downloads standard"
    [] s = "App Downloads Detailed" -> "app downloads detailed"
    [] s = "App Sessions Standard" -> "app sessions standard"
    [] s = "App Store Installation and Deletion Standard" ->
         "app store installation and deletion standard"
    [] s = "APP SESSIONS STANDARD" -> "app sessions standard"
    [] s = "Downloads" -> "downloads"
    [] OTHER -> s

\* _find_existing_report_request: the id of the first ONGOING request, else
\* of the first request of any type, else None; None when a call raises.
FindExistingReportRequest(v) ==
  IF ~v.api_up THEN None
  ELSE LET ongoing == SelectSeq(v.requests, LAMBDA r : r.accessType = "ONGOING")
       IN IF ongoing # << >> THEN ongoing[1].id
          ELSE IF v.requests # << >> THEN v.requests[1].id
          ELSE None

\* A lookup that asks the API for the catalog on every call.
FindReportIdUncached(cache, v, report_request_id, name_pattern) ==
  LET fetched == v.api_up
      items == IF fetched THEN v.reports ELSE << >>
      cache2 == IF fetched THEN (report_request_id :> items) @@ cache ELSE cache
      lp == Lower(Strip(name_pattern))
      matches == { i \in 1..Len(items) : Lower(items[i].name) = lp }
      first == CHOOSE i \in matches : \A j \in matches : i <= j
  IN [id |-> IF fetched /\ Truthy(Strip(name_pattern)) /\ matches # {}
               THEN items[first].id ELSE None,
      cache |-> cache2,
      fetched |-> fetched]

\* _find_report_id: [id, cache, fetched], the id of the first cached catalog
\* entry whose name equals name_pattern ignoring case (None when there is
\* none or the catalog fetch raises), _REPORTS_CACHE after the call, and
\* whether the call was answered a catalog by the API.
FindReportId(cache, v, report_request_id, name_pattern) ==
  LET hit == report_request_id \in DOMAIN cache
      fetched == ~hit /\ v.api_up
      items == IF hit THEN cache[report_request_id]
               ELSE IF fetched THEN v.reports ELSE << >>
      cache2 == IF fetched THEN (report_request_id :> items) @@ cache ELSE cache
      lp == Lower(Strip(name_pattern))
      matches == { i \in 1..Len(items) : Lower(items[i].name) = lp }
      first == CHOOSE i \in matches : \A j \in matches : i <= j
  IN [id |-> IF (hit \/ fetched) /\ Truthy(Strip(name_pattern)) /\ matches # {}
               THEN items[first].id ELSE None,
      cache |-> cache2,
      fetched |-> fetched]

\* The instances listing of a report: raised when the call fails.
ListInstances(v, report_id) ==
  IF v.api_up /\ report_id \in DOMAIN v.instances
    THEN [raised |-> FALSE, data |-> v.instances[report_id]]
    ELSE [raised |-> TRUE, data |-> << >>]

\* _download_report_segments: the rows of the instance ([] on any failure).
DownloadReportSegments(instance) == instance.rows

\* Lines 984-990: the instances inside the lookback window.
InWindow(instance, cutoff_iso) ==
  TextGE(Trunc10(IF Truthy(instance.processingDate)
                   THEN instance.processingDate ELSE ""), cutoff_iso)

CutoffIso(time, utc_off) == IsoDate(Today(time, utc_off) - DAYS_TO_FETCH)

\* sorted(wanted_instances, key=processingDate): a stable insertion sort.
RECURSIVE InsertByDate(_, _)
InsertByDate(sorted, inst) ==
  IF sorted = << >> THEN << inst >>
  ELSE IF TextLT(inst.processingDate, sorted[Len(sorted)].processingDate)
    THEN Append(InsertByDate(SubSeq(sorted, 1, Len(sorted) - 1), inst),
                sorted[Len(sorted)])
    ELSE Append(sorted, inst)

RECURSIVE SortByProcessingDate(_)
SortByProcessingDate(instances) ==
  IF instances = << >> THEN << >>
  ELSE InsertByDate(
         SortByProcessingDate(SubSeq(instances, 1, Len(instances) - 1)),
         instances[Len(instances)])


\* ------------------------------------------------------- the model's inputs
Meta ==
  ("__segment_id" :> "seg-1") @@ ("__segment_start" :> "1970-01-14")
    @@ ("__segment_end" :> "1970-01-15")

\* A row of the "App Downloads Standard" report.
DownloadsRow(date, counts) ==
  ("Date" :> date) @@ ("Territory" :> "US") @@ ("Platform Version" :> "iOS 17")
    @@ ("Source Type" :> "App Store") @@ ("Download Type" :> "First-time download")
    @@ ("Counts" :> counts) @@ Meta

With(row, col, v) == (col :> v) @@ row
Without(row, col) == [k \in DOMAIN row \ {col} |-> row[k]]

\* A CSV line with one field more than the header.
Malformed(row) == With(row, NoneKey, "['x']")

DownloadsReport(app) ==
  [id |-> "dl-" \o APPS[app].id, name |-> "App Downloads Standard",
   category |-> "APP_USAGE"]

\* The vendor's answers for an application whose catalog holds `reports`, the
\* first of them with `instances`.
VendorFor(app, up, requests, reports, instances) ==
  [api_up |-> up,
   requests |-> requests,
   reports |-> reports,
   instances |-> IF reports = << >> THEN << >> ELSE reports[1].id :> instances]

Request(app, accessType) == [id |-> "req-" \o APPS[app].id, accessType |-> accessType]
Ongoing(app) == << Request(app, "ONGOING") >>

Instance(id, processingDate, rows) ==
  [id |-> id, processingDate |-> processingDate, rows |-> rows]

Unreachable(app) == VendorFor(app, FALSE, Ongoing(app), << DownloadsReport(app) >>, << >>)

DayMinus1 == "1970-01-15"
DayMinus2 == "1970-01-14"

\* What the vendor may hold for an application in the collection loop: it is
\* unreachable; it has two instances whose rows overlap on one day; it has
\* an instance with a malformed line.
Scenarios(app) ==
  { Unreachable(app),
    VendorFor(app, TRUE, Ongoing(app), << DownloadsReport(app) >>,
      << Instance("i1", "1970-01-15", << DownloadsRow(DayMinus2, "5") >>),
         Instance("i2", "1970-01-16", << DownloadsRow(DayMinus1, "7"),
                                         DownloadsRow(DayMinus2, "5") >>) >>),
    VendorFor(app, TRUE, Ongoing(app), << DownloadsReport(app) >>,
      << Instance("i1", "1970-01-15",
                  << Malformed(DownloadsRow(DayMinus2, "5")) >>) >>) }

VendorMenu == { << a, b >> : a \in Scenarios(1), b \in Scenarios(2) }

\* The rows the vendor may return to one call of _process_analytics_data.
RowSet ==
  { DownloadsRow(DayMinus2, "5"),
    DownloadsRow(DayMinus2, "7"),
    DownloadsRow(DayMinus2, ""),
    DownloadsRow(DayMinus2, "-3"),
    DownloadsRow(DayMinus1, "5"),
    With(DownloadsRow(DayMinus2, "9"), "Device", "iPhone"),
    With(DownloadsRow(DayMinus2, "7"), "Date", "1970-01-14_Device=iPhone"),
    Without(With(DownloadsRow(DayMinus2, "5"), "Source Type", "App Store|Territory=US"),
            "Territory"),
    Without(DownloadsRow(DayMinus2, "5"), "Counts"),
    With(DownloadsRow(DayMinus2, "5"), "Download Type", "Redownload"),
    Malformed(DownloadsRow(DayMinus2, "5")) }

SeqsUpTo(S, n) == UNION { [1..k -> S] : k \in 0..n }

\* A row whose date columns are d and p (None: the column is absent) in a
\* segment whose start date is s.
DatedRow(d, p, s) ==
  LET base == With(Without(DownloadsRow(DayMinus2, "5"), "Date"), "__segment_start", s)
      dated == IF d = None THEN base ELSE With(base, "Date", d)
  IN IF p = None THEN dated ELSE With(dated, "Processing Date", p)

\* Two instances inside the window sharing the rows q, the first k of them
\* in the older instance.
RowPool(q, k) ==
  << Instance("i1", "1970-01-15", SubSeq(q, 1, k)),
     Instance("i2", "1970-01-16", SubSeq(q, k + 1, Len(q))) >>

\* Processing dates around the window's edge, 1970-01-02 on 1970-01-16.
ProcessingDates ==
  { None, "", "1970-01-01", "1970-01-01T23:59:59Z", "1970-01-02",
    "1970-01-02T23:59:59Z", "1970-01-15T00:00:00Z", "n/a" }

InstanceIds == << "i1", "i2", "i3", "i4" >>

\* What an instance of a listing may hold: no row, one row, a malformed line.
InstanceRows ==
  { << >>, << DownloadsRow(DayMinus2, "5") >>,
    << Malformed(DownloadsRow(DayMinus2, "5")) >> }

\* A listing of n instances with the processing dates d and the rows r.
WindowPool(n, d, r) == [k \in 1..n |-> Instance(InstanceIds[k], d[k], r[k])]

\* Report requests and catalogs an application may have.
RequestLists(app) ==
  { << >>, Ongoing(app), << Request(app, "ONE_TIME_SNAPSHOT") >>,
    << [id |-> "old-" \o APPS[app].id, accessType |-> "ONE_TIME_SNAPSHOT"],
       Request(app, "ONGOING") >> }

Catalogs(app) ==
  { << >>,
    << DownloadsReport(app) >>,
    << [id |-> "dd-" \o APPS[app].id, name |-> "App Downloads Detailed",
        category |-> "APP_USAGE"],
       [id |-> "dl-" \o APPS[app].id, name |-> "app downloads standard",
        category |-> "APP_USAGE"] >> }

\* ------------------------------------------------------------------- state
VARIABLES
  metrics_data,        \* _metrics_data
  health_state,        \* _health_state
  reports_cache,       \* _REPORTS_CACHE: report request id -> catalog items
  vendor,              \* what the vendor answers, per application
  now,                 \* the clock, in seconds since the epoch
  utc_offset,          \* the local time zone of the process, seconds east
  pc,                  \* where the collector thread is
  cycles,              \* iterations of the background loop started
  app_idx,             \* the application being processed (index into APPS)
  metric_idx,          \* the metric being processed (index into METRICS)
  collection_errors,   \* len(collection_errors) of the running cycle
  pad,                 \* the locals of the running _process_analytics_data
  scanned,             \* ids passed to _download_report_segments by that call
  exports,             \* the _export_metrics calls of that call, in order
  raised_apps,         \* applications whose processing raised in this cycle
  last_cycle,          \* what the last completed cycle ran on and left
  catalog_fetches,     \* catalog API calls answered, per report request id
  call,                \* a single call of one function, when one is followed
  stop,                \* _stop_event is set
  locks,               \* the owner of _metrics_lock and of _health_state_lock
  threads              \* where each thread is in its code, when followed

vars ==
  << metrics_data, health_state, reports_cache, vendor, now, utc_offset, pc,
     cycles, app_idx, metric_idx, collection_errors, pad, scanned, exports,
     raised_apps, last_cycle, catalog_fetches, call, stop, locks, threads >>

PadIdle ==
  [wanted |-> << >>, all_rows |-> << >>, global_seen_keys |-> {},
   groups |-> << >>, gi |-> 1, ri |-> 1, schema_seen_keys |-> {},
   exported_count |-> 0]

\* Samples of the configured metrics in a store, in store order.
MetricNames == { METRICS[i].prom_name : i \in 1..Len(METRICS) }
Samples(store) ==
  SelectSeq(store, LAMBDA e : e.kind = "tuple" /\ e.key[1] \in MetricNames)

NoCycle ==
  [done |-> 0, vendor |-> << >>, raised |-> {}, today |-> 0, store |-> << >>,
   repeat |-> FALSE, before |-> << >>]

\* Lines 110 and 121: both locks are free.
Unlocked == [metrics |-> "free", health |-> "free"]

\* No thread is followed through its code.
NoThreads == [collector |-> [pos |-> "none"], scraper |-> "none", prober |-> "none"]

\* No single call is followed.
NoCall == [fn |-> "none"]

HealthInit ==
  [healthy |-> FALSE, last_successful_collection |-> NoneTime,
   last_error |-> None, collections_count |-> 0]

\* ------------------------------------------------- _process_analytics_data
\* Lines 942-1005: resolve the report request and the report, list the
\* instances and keep those inside the window.
PadResolve ==
  /\ pc = "metric"
  /\ LET m == METRICS[metric_idx]
         v == vendor[app_idx]
         report_request_id == FindExistingReportRequest(v)
         found == FindReportId(reports_cache, v, report_request_id, m.report_type)
         resp == ListInstances(v, found.id)
         wanted_instances ==
           SelectSeq(resp.data, LAMBDA inst : InWindow(inst, CutoffIso(now, utc_offset)))
     IN IF ~Truthy(report_request_id)
          THEN /\ pc' = "returned"
               /\ pad' = PadIdle
               /\ UNCHANGED << reports_cache, catalog_fetches >>
          ELSE /\ reports_cache' = found.cache
               /\ catalog_fetches' =
                    IF found.fetched
                      THEN (report_request_id :>
                              (IF report_request_id \in DOMAIN catalog_fetches
                                 THEN catalog_fetches[report_request_id] ELSE 0) + 1)
                           @@ catalog_fetches
                      ELSE catalog_fetches
               /\ IF ~Truthy(found.id) \/ resp.raised \/ wanted_instances = << >>
                    THEN /\ pc' = "returned"
                         /\ pad' = PadIdle
                    ELSE /\ pc' = "scan"
                         /\ pad' = [PadIdle EXCEPT
                                      !.wanted = SortByProcessingDate(wanted_instances)]
  /\ scanned' = << >>
  /\ exports' = << >>
  /\ UNCHANGED << call, stop, locks, threads >>
  /\ UNCHANGED << metrics_data, health_state, vendor, now, utc_offset, cycles,
                  app_idx, metric_idx, collection_errors, raised_apps, last_cycle >>

\* Lines 1011-1046, one instance: download its rows and keep those whose
\* key no earlier row of the call had; after the last instance, lines
\* 1048-1153: filter the pooled rows and group them by schema.
PadScanInstance ==
  /\ pc = "scan"
  /\ pad.wanted # << >>
  /\ LET m == METRICS[metric_idx]
         instance == Head(pad.wanted)
         instance_rows == DownloadReportSegments(instance)
         r == DedupInstance(instance_rows, pad.global_seen_keys, << >>)
         all_rows == pad.all_rows \o r.unique_rows
         rest == Tail(pad.wanted)
         groups == GroupBySchema(FilteredRows(all_rows, m.key, m.row_filter), << >>)
     IN /\ scanned' = Append(scanned, instance.id)
        /\ IF r.raised
             THEN /\ pc' = "failed"
                  /\ pad' = PadIdle
             ELSE IF rest # << >>
               THEN /\ pc' = "scan"
                    /\ pad' = [pad EXCEPT !.wanted = rest, !.all_rows = all_rows,
                                          !.global_seen_keys = r.seen]
             ELSE IF all_rows = << >> \/ groups = << >>
               THEN /\ pc' = "returned"
                    /\ pad' = [PadIdle EXCEPT !.all_rows = all_rows]
             ELSE /\ pc' = "rows"
                  /\ pad' = [PadIdle EXCEPT !.all_rows = all_rows, !.groups = groups]
  /\ UNCHANGED << call, stop, locks, threads >>
  /\ UNCHANGED catalog_fetches
  /\ UNCHANGED << metrics_data, health_state, reports_cache, vendor, now,
                  utc_offset, cycles, app_idx, metric_idx, collection_errors,
                  exports, raised_apps, last_cycle >>

\* The row the loop of lines 1156-1166 is at.
CurrentRow == pad.groups[pad.gi].rows[pad.ri]
ValueCol == IF METRICS[metric_idx].value_patterns # << >>
              THEN METRICS[metric_idx].value_patterns[1] ELSE None

\* A guard that lets an empty value through.
NoValueOnlyMissing(row) == ~Truthy(ValueCol) \/ Get(row, ValueCol) = None

\* Lines 1168-1169: the row has no value.
NoValue(row) == ~Truthy(ValueCol) \/ ~Truthy(Get(row, ValueCol))

\* A loop that records the key of an exported row only.
SchemaSeenAfterExport(schema_seen_keys, row, unique_key) ==
  IF NoValue(row) \/ ExtractNumber(Get(row, ValueCol)) < 0
    THEN schema_seen_keys
    ELSE schema_seen_keys \cup {unique_key}

\* Lines 1168-1199: schema_seen_keys after a row; the key of a row with a
\* value is recorded at line 1199, before the value is read at 1202.
SchemaSeenAfter(schema_seen_keys, row, unique_key) ==
  IF NoValue(row) THEN schema_seen_keys ELSE schema_seen_keys \cup {unique_key}

\* Lines 1166-1207, one row of the running schema group.
PadRow ==
  /\ pc = "rows"
  /\ LET m == METRICS[metric_idx]
         group == pad.groups[pad.gi]
         row == CurrentRow
         date_val == DateVal(row, "")
         unique_key == SchemaUniqueKey(row, group.schema_cols, ValueCol, date_val)
         duplicate == unique_key \in pad.schema_seen_keys
         value == ExtractNumber(Get(row, ValueCol))
         exported == ~NoValue(row) /\ ~duplicate /\ value >= 0
         seen == SchemaSeenAfter(pad.schema_seen_keys, row, unique_key)
         last_of_group == pad.ri = Len(group.rows)
         last_group == pad.gi = Len(pad.groups)
     IN /\ IF exported
             THEN /\ metrics_data' = ExportMetrics(metrics_data, APPS[app_idx], row,
                                                   m.key, value, date_val, now, utc_offset)
                  /\ exports' = Append(exports,
                       [row |-> row, key |-> ExportKey(APPS[app_idx], row, m.key, date_val),
                        value |-> value, date |-> date_val])
             ELSE UNCHANGED << metrics_data, exports >>
        /\ IF last_of_group /\ last_group
             THEN /\ pc' = "returned"
                  /\ pad' = [PadIdle EXCEPT !.all_rows = pad.all_rows]
             ELSE /\ pc' = "rows"
                  /\ pad' = [pad EXCEPT
                       !.ri = IF last_of_group THEN 1 ELSE @ + 1,
                       !.gi = IF last_of_group THEN @ + 1 ELSE @,
                       !.schema_seen_keys = IF last_of_group THEN {} ELSE seen,
                       !.exported_count = IF exported THEN @ + 1 ELSE @]
  /\ UNCHANGED << call, stop, locks, threads >>
  /\ UNCHANGED catalog_fetches
  /\ UNCHANGED << health_state, reports_cache, vendor, now, utc_offset, cycles,
                  app_idx, metric_idx, collection_errors, scanned, raised_apps,
                  last_cycle >>

\* Lines 1266-1277: an exception inside the call is counted in the store.
PadFailed ==
  /\ pc = "failed"
  /\ metrics_data' = CountParsingError(metrics_data, APPS[app_idx].name,
                                       METRICS[metric_idx].report_type, now)
  /\ pc' = "returned"
  /\ UNCHANGED << call, stop, locks, threads >>
  /\ UNCHANGED catalog_fetches
  /\ UNCHANGED << health_state, reports_cache, vendor, now, utc_offset, cycles,
                  app_idx, metric_idx, collection_errors, pad, scanned, exports,
                  raised_apps, last_cycle >>

NextPad == PadResolve \/ PadScanInstance \/ PadRow \/ PadFailed


\* ------------------------------------------------ _format_prometheus_output
RECURSIVE Flatten(_)
Flatten(seqs) == IF seqs = << >> THEN << >> ELSE Head(seqs) \o Flatten(Tail(seqs))

Line(text, value, ts) == [text |-> text, value |-> value, ts |-> ts]
Header(name, help) ==
  << Line("# HELP " \o name \o " " \o help, 0, 0),
     Line("# TYPE " \o name \o " gauge", 0, 0) >>

\* Lines 216-235: the sample line of a store entry of metric m.
SampleLine(m, e) ==
  LET key == e.key
      package == IF Len(key) >= 2 THEN << "package=\"" \o key[2] \o "\"" >> ELSE << >>
      shown == SelectSeq([i \in 1..Len(m.labels) |-> i],
                 LAMBDA i : Len(key) > i + 1 /\ i + 1 < Len(key) - 1)
      labels_parts ==
        package \o [j \in 1..Len(shown) |->
                     m.labels[shown[j]][1] \o "=\"" \o key[shown[j] + 2] \o "\""]
  IN Line(m.prom_name \o "{" \o Join(labels_parts, ",") \o "}", e.value, e.ts)

\* A rendering that shows every entry of the metric.
MetricLinesAll(store, m) ==
  LET shown == SelectSeq(store, LAMBDA e :
        e.kind = "tuple" /\ Len(e.key) >= 1 /\ e.key[1] = m.prom_name)
  IN [i \in 1..Len(shown) |-> SampleLine(m, shown[i])]

\* Lines 205-235: the sample lines of metric m, in store order; an entry
\* whose value is not positive has no line.
MetricLines(store, m) ==
  LET shown == SelectSeq(store, LAMBDA e :
        e.kind = "tuple" /\ Len(e.key) >= 1 /\ e.key[1] = m.prom_name /\ e.value > 0)
  IN [i \in 1..Len(shown) |-> SampleLine(m, shown[i])]

\* _format_prometheus_output: the lines of the snapshot, each with the value
\* and the timestamp it ends with (0 0 for a comment line).
FormatPrometheusOutput(store) ==
  LET metric_lines(m) == Header(m.prom_name, "help") \o MetricLines(store, m)
      errors == SelectSeq(store, LAMBDA e :
        e.kind = "tuple" /\ Len(e.key) >= 3 /\ e.key[1] = ERRORS_METRIC /\ e.value > 0)
      stamps == SelectSeq(store, LAMBDA e :
        e.kind = "str" /\ e.key = << LAST_COLLECTION_METRIC >>)
  IN Flatten([i \in 1..Len(METRICS) |-> metric_lines(METRICS[i])])
     \o Header(ERRORS_METRIC, "Total number of parsing errors per app and report")
     \o [i \in 1..Len(errors) |->
          Line(ERRORS_METRIC \o "{package=\"" \o errors[i].key[2] \o "\",report_type=\""
                 \o errors[i].key[3] \o "\"}", errors[i].value, errors[i].ts)]
     \o Header(LAST_COLLECTION_METRIC, "Timestamp of last successful collection")
     \o [i \in 1..Len(stamps) |-> Line(LAST_COLLECTION_METRIC, stamps[i].value, stamps[i].ts)]
     \o << Line("", 0, 0) >>

\* ------------------------------------------------- _run_metrics_collection
\* A loop that goes on whatever the stop event says.
LoopContinuesAlways(stopped) == TRUE

\* Line 1406: while not _stop_event.is_set().
LoopContinues(stopped) == ~stopped

\* Lines 1406-1408 and 1306-1323: the loop starts a cycle, which clears the
\* store but for the error counters, in one critical section.
StartCycle ==
  /\ pc = "loop"
  /\ LoopContinues(stop)
  /\ cycles < MaxCycles
  /\ cycles' = cycles + 1
  /\ metrics_data' = ClearedStore(metrics_data)
  /\ collection_errors' = 0
  /\ raised_apps' = {}
  /\ app_idx' = 1
  /\ metric_idx' = 1
  /\ pc' = "metric"
  /\ UNCHANGED << call, stop, locks, threads >>
  /\ UNCHANGED catalog_fetches
  /\ UNCHANGED << health_state, reports_cache, vendor, now, utc_offset, pad,
                  scanned, exports, last_cycle >>

\* A collector that gives up the remaining applications.
AfterAppAbort(next_pc) ==
  /\ metric_idx' = 1
  /\ app_idx' = app_idx
  /\ next_pc = "health"

\* Where the collector goes after application app_idx.
AfterApp(next_pc) ==
  /\ metric_idx' = 1
  /\ app_idx' = IF app_idx < Len(APPS) THEN app_idx + 1 ELSE app_idx
  /\ next_pc = IF app_idx < Len(APPS) THEN "metric" ELSE "health"

\* Lines 1292-1301 and 1324-1326: _process_analytics_data returned; on to
\* the next metric definition, the next application or the health update.
NextMetric ==
  /\ pc = "returned"
  /\ IF metric_idx < Len(METRICS)
       THEN /\ metric_idx' = metric_idx + 1
            /\ pc' = "metric"
            /\ UNCHANGED app_idx
       ELSE AfterApp(pc')
  /\ pad' = PadIdle
  /\ scanned' = << >>
  /\ exports' = << >>
  /\ UNCHANGED << call, stop, locks, threads >>
  /\ UNCHANGED catalog_fetches
  /\ UNCHANGED << metrics_data, health_state, reports_cache, vendor, now,
                  utc_offset, cycles, collection_errors, raised_apps,
                  last_cycle >>

\* Lines 1327-1329: an exception leaves _process_app_metrics (one that
\* _process_analytics_data's own handler does not absorb; the tests inject
\* it) and is counted.
AppRaises ==
  /\ pc = "metric"
  /\ metric_idx = 1
  /\ collection_errors' = collection_errors + 1
  /\ raised_apps' = raised_apps \cup { app_idx }
  /\ AfterApp(pc')
  /\ UNCHANGED << call, stop, locks, threads >>
  /\ UNCHANGED catalog_fetches
  /\ UNCHANGED << metrics_data, health_state, reports_cache, vendor, now,
                  utc_offset, cycles, pad, scanned, exports, last_cycle >>

\* A judgement that forgets earlier successes.
JudgeCycleRegress(h, errors, time) ==
  [healthy |-> errors < Len(APPS),
   last_successful_collection |->
     IF errors < Len(APPS) THEN time ELSE h.last_successful_collection,
   last_error |->
     IF errors = 0 THEN None
     ELSE "Failed to collect metrics for " \o ToString(errors) \o "/"
            \o ToString(Len(APPS)) \o " apps",
   collections_count |-> h.collections_count + 1]

\* A judgement that does not count the cycle.
JudgeCycleUncounted(h, errors, time) ==
  [healthy |-> IF errors < Len(APPS) THEN TRUE ELSE h.healthy,
   last_successful_collection |->
     IF errors < Len(APPS) THEN time ELSE h.last_successful_collection,
   last_error |->
     IF errors = 0 THEN None
     ELSE "Failed to collect metrics for " \o ToString(errors) \o "/"
            \o ToString(Len(APPS)) \o " apps",
   collections_count |-> h.collections_count]

\* Lines 1332-1350: the health state after the applications.
JudgeCycle(h, errors, time) ==
  [healthy |-> IF errors < Len(APPS) THEN TRUE ELSE h.healthy,
   last_successful_collection |->
     IF errors < Len(APPS) THEN time ELSE h.last_successful_collection,
   last_error |->
     IF errors = 0 THEN None
     ELSE "Failed to collect metrics for " \o ToString(errors) \o "/"
            \o ToString(Len(APPS)) \o " apps",
   collections_count |-> h.collections_count + 1]

\* Lines 1353-1360: the store after the health update.
StampCollection(store, h, time) ==
  IF h.healthy
    THEN StorePut(store, "str", << LAST_COLLECTION_METRIC >>, time, time * 1000)
    ELSE store

\* What a completed cycle ran on.
SameInput(c) ==
  /\ c.done > 0
  /\ c.vendor = vendor
  /\ c.raised = raised_apps
  /\ c.today = Today(now, utc_offset)

\* Lines 1332-1360: the cycle is judged and stamped.
UpdateHealth ==
  /\ pc = "health"
  /\ health_state' = JudgeCycle(health_state, collection_errors, now)
  /\ metrics_data' = StampCollection(metrics_data, health_state', now)
  /\ last_cycle' =
       [done |-> health_state'.collections_count, vendor |-> vendor,
        raised |-> raised_apps, today |-> Today(now, utc_offset),
        store |-> metrics_data',
        repeat |-> SameInput(last_cycle),
        before |-> last_cycle.store]
  /\ pc' = "wait"
  /\ UNCHANGED << call, stop, locks, threads >>
  /\ UNCHANGED catalog_fetches
  /\ UNCHANGED << reports_cache, vendor, now, utc_offset, cycles, app_idx,
                  metric_idx, collection_errors, pad, scanned, exports,
                  raised_apps >>

\* Lines 1409-1414: an exception leaves _run_metrics_collection (raised
\* outside the per-application try, such as in the handler of lines
\* 1327-1329) and the loop records the cycle as failed.
CollectionFailed ==
  /\ pc = "metric"
  /\ metric_idx = 1
  /\ health_state' = [health_state EXCEPT !.healthy = FALSE,
                                          !.last_error = "collection failed"]
  /\ pc' = "wait"
  /\ UNCHANGED << call, stop, locks, threads >>
  /\ UNCHANGED catalog_fetches
  /\ UNCHANGED << metrics_data, reports_cache, vendor, now, utc_offset, cycles,
                  app_idx, metric_idx, collection_errors, pad, scanned, exports,
                  raised_apps, last_cycle >>

\* Lines 1448-1472: the answer of GET /healthz to the health state h (with
\* logging above DEBUG).
Healthz(h) ==
  IF h.healthy /\ h.collections_count > 0
    THEN [status |-> 200, body |-> "ok"]
  ELSE IF h.collections_count = 0
    THEN [status |-> 503, body |-> "not ready - no collections completed yet"]
  ELSE [status |-> 503, body |-> "unhealthy - " \o Str(h.last_error)]

\* Line 1416: the loop sleeps for the collection interval; the vendor's data
\* may have changed by the next cycle.
Wait ==
  /\ pc = "wait"
  /\ ~stop
  /\ cycles < MaxCycles
  /\ now' = now + COLLECTION_INTERVAL
  /\ vendor' \in VendorMenu
  /\ pc' = "loop"
  /\ UNCHANGED << call, stop, locks, threads >>
  /\ UNCHANGED catalog_fetches
  /\ UNCHANGED << metrics_data, health_state, reports_cache, utc_offset, cycles,
                  app_idx, metric_idx, collection_errors, pad, scanned, exports,
                  raised_apps, last_cycle >>

Init ==
  /\ metrics_data = << >>
  /\ health_state = HealthInit
  /\ reports_cache = << >>
  /\ vendor \in VendorMenu
  /\ now = StartTime
  /\ utc_offset = 0
  /\ pc = "loop"
  /\ cycles = 0
  /\ app_idx = 1
  /\ metric_idx = 1
  /\ collection_errors = 0
  /\ pad = PadIdle
  /\ scanned = << >>
  /\ exports = << >>
  /\ raised_apps = {}
  /\ last_cycle = NoCycle
  /\ catalog_fetches = << >>
  /\ call = NoCall
  /\ stop = FALSE
  /\ locks = Unlocked
  /\ threads = NoThreads

Next ==
  \/ StartCycle
  \/ PadResolve
  \/ PadScanInstance
  \/ PadRow
  \/ PadFailed
  \/ NextMetric
  \/ AppRaises
  \/ UpdateHealth
  \/ CollectionFailed
  \/ Wait

Spec == Init /\ [][Next]_vars

\* Lines 1431-1433: stop_background_collection sets the stop event, at any
\* moment of the loop.
StopBackgroundCollection ==
  /\ ~stop
  /\ stop' = TRUE
  /\ UNCHANGED << metrics_data, health_state, reports_cache, vendor, now,
                  utc_offset, pc, cycles, app_idx, metric_idx, collection_errors,
                  pad, scanned, exports, raised_apps, last_cycle, catalog_fetches,
                  call, locks, threads >>

\* Lines 1406 and 1416: with the event set, _stop_event.wait returns at once,
\* the loop condition is false and _background_collection returns.
LoopExit ==
  /\ pc \in { "loop", "wait" }
  /\ ~LoopContinues(stop)
  /\ pc' = "stopped"
  /\ UNCHANGED << metrics_data, health_state, reports_cache, vendor, now,
                  utc_offset, cycles, app_idx, metric_idx, collection_errors,
                  pad, scanned, exports, raised_apps, last_cycle, catalog_fetches,
                  call, stop, locks, threads >>

\* A step of the collector while the vendor answers in every cycle what it
\* answered in the first.
Collect == Next /\ vendor' = vendor

\* The background loop with a stop that may come at any moment; the
\* collector thread keeps running while it has a step to take.
NextStop ==
  \/ Collect
  \/ StopBackgroundCollection
  \/ LoopExit

\* The loop starts with the second application out of reach.
InitStop == Init /\ vendor[2] = Unreachable(2)

SpecStop == InitStop /\ [][NextStop]_vars /\ WF_vars(Collect \/ LoopExit)


\* One call of _process_analytics_data, for the first application, on data
\* drawn from the model's inputs.
InitCall(v, metric, offset) ==
  /\ metrics_data = << >>
  /\ health_state = HealthInit
  /\ reports_cache = << >>
  /\ vendor = << v, Unreachable(2) >>
  /\ now = StartTime
  /\ utc_offset = offset
  /\ pc = "metric"
  /\ cycles = 1
  /\ app_idx = 1
  /\ metric_idx = metric
  /\ collection_errors = 0
  /\ pad = PadIdle
  /\ scanned = << >>
  /\ exports = << >>
  /\ raised_apps = {}
  /\ last_cycle = NoCycle
  /\ catalog_fetches = << >>
  /\ call = NoCall
  /\ stop = FALSE
  /\ locks = Unlocked
  /\ threads = NoThreads

InitData ==
  \/ \E q \in SeqsUpTo(RowSet, MaxPoolRows) : \E k \in 0..Len(q) :
       InitCall(VendorFor(1, TRUE, Ongoing(1), << DownloadsReport(1) >>, RowPool(q, k)),
                1, 0)
  \/ \E n \in 0..MaxInstances, offset \in {0, 3600} :
       \E d \in [1..n -> ProcessingDates], r \in [1..n -> InstanceRows] :
         InitCall(VendorFor(1, TRUE, Ongoing(1), << DownloadsReport(1) >>,
                            WindowPool(n, d, r)), 1, offset)
  \/ \E d \in { None, "", "1970-01-13" }, p \in { None, "", "1970-01-15T00:00:00Z" },
        s \in { "", "1970-01-14" }, pd \in { "1970-01-16", "1970-01-15T00:00:00Z" } :
       InitCall(VendorFor(1, TRUE, Ongoing(1), << DownloadsReport(1) >>,
                          << Instance("i1", pd, << DatedRow(d, p, s) >>) >>), 1, 0)
  \/ \E up \in BOOLEAN, requests \in RequestLists(1), reports \in Catalogs(1),
        metric \in 1..Len(METRICS) :
       InitCall(VendorFor(1, up, requests, reports,
                  << Instance("i1", "1970-01-15", << DownloadsRow(DayMinus2, "5") >>) >>),
                metric, 0)

SpecData == InitData /\ [][NextPad]_vars



\* ------------------------------------------------------------- _asc_api_call
\* What one request attempt meets.  An HTTP error carries the response:
\* `status` is its status code and `truthy` its truth value, which for a
\* requests.Response is `ok` (false for every status of 400 and above) and
\* which is true for the response doubles the tests build.
Ok == [kind |-> "ok", status |-> 200, truthy |-> TRUE]
HttpError(status) == [kind |-> "http_error", status |-> status, truthy |-> FALSE]
HttpErrorDouble(status) == [kind |-> "http_error", status |-> status, truthy |-> TRUE]
ConnectionError == [kind |-> "connection", status |-> 0, truthy |-> FALSE]
Timeout == [kind |-> "timeout", status |-> 0, truthy |-> FALSE]

Outcomes ==
  { Ok, HttpError(429), HttpErrorDouble(429), HttpError(403), HttpError(500),
    ConnectionError, Timeout }

\* A test of the status alone that takes 403 for a rate limit too.
RateLimitedOrForbidden(o) == o.status \in {403, 429}

\* Lines 346-350: hasattr(e, "response") and e.response and status_code == 429.
RateLimited(o) == o.truthy /\ o.status = 429

\* Line 360: attempt == retries - 1.
LastAttempt(attempt, retries) == attempt = retries - 1

\* A call of _asc_api_call(method, path, retries) that meets script[k] on its
\* k-th request, before its first statement.
ApiCall(retries, script) ==
  [fn |-> "_asc_api_call", pc |-> "begin", retries |-> retries, script |-> script,
   attempt |-> 0, tokens |-> 0, requests |-> << >>, slept |-> << >>, body |-> 0]

\* Lines 328-330: the token and the headers of the call.
ApiBegin ==
  /\ call.fn = "_asc_api_call"
  /\ call.pc = "begin"
  /\ call' = [call EXCEPT !.tokens = @ + 1, !.pc = "attempt"]
  /\ UNCHANGED << metrics_data, health_state, reports_cache, vendor, now,
                  utc_offset, pc, cycles, app_idx, metric_idx, collection_errors,
                  pad, scanned, exports, raised_apps, last_cycle, catalog_fetches,
                  stop, locks, threads >>

\* Lines 332-362, one iteration of the loop, and line 364 after the last:
\* the call after the request of attempt c.attempt.  A request carries the
\* token of the headers; the body of the k-th response is k.
ApiIteration(c) ==
  LET o == c.script[c.attempt + 1]
      sent == [c EXCEPT !.requests = Append(@, c.tokens)]
      again(wait) ==
        [sent EXCEPT !.slept = Append(@, wait), !.attempt = @ + 1,
                     !.pc = IF c.attempt + 1 < c.retries THEN "attempt" ELSE "raised"]
  IN IF o.kind = "ok"
       THEN [sent EXCEPT !.pc = "returned", !.body = c.attempt + 1]
     ELSE IF o.kind = "http_error"
       THEN IF RateLimited(o) THEN again(2 ^ c.attempt)
            ELSE [sent EXCEPT !.pc = "raised"]
     ELSE IF LastAttempt(c.attempt, c.retries)
       THEN [sent EXCEPT !.pc = "raised"]
     ELSE again(1)

ApiAttempt ==
  /\ call.fn = "_asc_api_call"
  /\ call.pc = "attempt"
  /\ call' = ApiIteration(call)
  /\ UNCHANGED << metrics_data, health_state, reports_cache, vendor, now,
                  utc_offset, pc, cycles, app_idx, metric_idx, collection_errors,
                  pad, scanned, exports, raised_apps, last_cycle, catalog_fetches,
                  stop, locks, threads >>

\* ------------------------------------ analytics-requests-manager.py, asc_get
\* A call of asc_get, asc_post or asc_delete with the caller's token.
AscCall(fn, max_retries, script) ==
  [fn |-> fn, pc |-> "attempt", retries |-> max_retries, script |-> script,
   attempt |-> 0, tokens |-> 1, requests |-> << >>, slept |-> << >>, body |-> 0]

AscFunctions == { "asc_get", "asc_post", "asc_delete" }

\* One iteration of the loop of asc_get (309-340), asc_post (343-372) or
\* asc_delete (375-399): 403 ends the process, another HTTP error is raised,
\* a connection error or a timeout is retried after 2**attempt seconds.
AscIteration(c) ==
  LET o == c.script[c.attempt + 1]
      sent == [c EXCEPT !.requests = Append(@, c.tokens)]
  IN IF o.status = 403 THEN [sent EXCEPT !.pc = "exited"]
     ELSE IF o.kind = "ok"
       THEN [sent EXCEPT !.pc = "returned", !.body = c.attempt + 1]
     ELSE IF o.kind = "http_error" THEN [sent EXCEPT !.pc = "raised"]
     ELSE IF c.attempt < c.retries - 1
       THEN [sent EXCEPT !.slept = Append(@, 2 ^ c.attempt), !.attempt = @ + 1]
     ELSE [sent EXCEPT !.pc = "raised"]

AscAttempt ==
  /\ call.fn \in AscFunctions
  /\ call.pc = "attempt"
  /\ call' = AscIteration(call)
  /\ UNCHANGED << metrics_data, health_state, reports_cache, vendor, now,
                  utc_offset, pc, cycles, app_idx, metric_idx, collection_errors,
                  pad, scanned, exports, raised_apps, last_cycle, catalog_fetches,
                  stop, locks, threads >>


\* ------------------------------------------------- _download_report_segments
\* What the vendor holds for one segment of an instance:
\*   ok            it downloads and decodes
\*   no_url        its attributes name no url
\*   bad_url       urlparse raises ValueError on its url (as on "http://[x")
\*   download      the download raises (a connection error, an HTTP 500)
\*   unauthorized  the download with the token is answered 403 and the one
\*                 without it succeeds
\*   decode        its content does not parse
SegmentKinds == { "ok", "no_url", "bad_url", "download", "unauthorized", "decode" }

Segment(id, kind) == [id |-> id, kind |-> kind]
SegmentIds == << "s1", "s2", "s3", "s4" >>

\* Lines 776-791: the rows parsed from a segment that decodes.
SegmentRows(segment) ==
  << With(DownloadsRow(DayMinus2, "5"), "__segment_id", segment.id) >>

\* A call of _download_report_segments on an instance whose segments come in
\* two pages, the first `first_page` of them on the first one.
SegmentsCall(listing_ok, segments, first_page, next_ok) ==
  [fn |-> "_download_report_segments", pc |-> "list", listing_ok |-> listing_ok,
   segments |-> segments, first_page |-> first_page, next_ok |-> next_ok,
   segments_data |-> << >>, i |-> 1, all_rows |-> << >>, result |-> << >>,
   tokens |-> 0, requests |-> << >>]

\* Lines 615-645: the listing and its pages.  The first page is an
\* _asc_api_call, which makes its own token; a next page is fetched with a
\* token of its own and ends the listing when it fails.
SegmentsList ==
  /\ call.fn = "_download_report_segments"
  /\ call.pc = "list"
  /\ LET more == call.first_page < Len(call.segments)
         listed == IF more /\ ~call.next_ok
                     THEN SubSeq(call.segments, 1, call.first_page)
                     ELSE call.segments
         tokens == call.tokens + 1 + (IF more THEN 1 ELSE 0)
         requests == << call.tokens + 1 >> \o (IF more THEN << call.tokens + 2 >> ELSE << >>)
     IN IF ~call.listing_ok
          THEN call' = [call EXCEPT !.pc = "returned", !.result = << >>,
                                    !.tokens = @ + 1,
                                    !.requests = Append(@, call.tokens + 1)]
          ELSE call' = [call EXCEPT
                 !.segments_data = listed, !.tokens = tokens,
                 !.requests = @ \o requests,
                 !.pc = IF listed = << >> THEN "returned" ELSE "segment"]
  /\ UNCHANGED << metrics_data, health_state, reports_cache, vendor, now,
                  utc_offset, pc, cycles, app_idx, metric_idx, collection_errors,
                  pad, scanned, exports, raised_apps, last_cycle, catalog_fetches,
                  stop, locks, threads >>

\* Lines 650-856, one segment, and 858-865 after the last one or on an
\* exception that leaves the loop.
SegmentIteration(c) ==
  LET segment == c.segments_data[c.i]
      last == c.i = Len(c.segments_data)
      downloaded == [c EXCEPT !.tokens = @ + 1, !.requests = Append(@, c.tokens + 1)]
      next(d, rows) ==
        [d EXCEPT !.all_rows = @ \o rows, !.i = @ + 1,
                  !.pc = IF last THEN "returned" ELSE "segment",
                  !.result = IF last THEN d.all_rows \o rows ELSE << >>]
  IN CASE segment.kind = "no_url" -> next(c, << >>)
       [] segment.kind = "bad_url" -> [c EXCEPT !.pc = "returned", !.result = << >>]
       [] segment.kind = "download" -> next(downloaded, << >>)
       [] segment.kind = "decode" -> next(downloaded, << >>)
       [] OTHER -> next(downloaded, SegmentRows(segment))

SegmentStep ==
  /\ call.fn = "_download_report_segments"
  /\ call.pc = "segment"
  /\ call' = SegmentIteration(call)
  /\ UNCHANGED << metrics_data, health_state, reports_cache, vendor, now,
                  utc_offset, pc, cycles, app_idx, metric_idx, collection_errors,
                  pad, scanned, exports, raised_apps, last_cycle, catalog_fetches,
                  stop, locks, threads >>

\* ----------------------------------------------------------- _find_report_id
\* Report names a caller asks for and catalogs the vendor answers with.
RequestedNames ==
  { METRICS[i].report_type : i \in 1..Len(METRICS) }
    \cup { "app downloads standard", "APP SESSIONS STANDARD", "Downloads" }

CatalogEntry(id, name) == [id |-> id, name |-> name, category |-> "APP_USAGE"]
CatalogB ==
  << CatalogEntry("r1", "App Downloads Standard"),
     CatalogEntry("r2", "App Sessions Standard") >>
LookupCatalogs ==
  { << >>, CatalogB,
    << CatalogEntry("r1", "App Downloads Detailed"),
       CatalogEntry("r2", "app downloads standard"),
       CatalogEntry("r3", "App Downloads Standard") >>,
    << CatalogEntry("r1", "App Sessions Standard"),
       CatalogEntry("r2", "App Sessions Standard") >> }

\* A call of _find_report_id("req", name) with an empty cache.
LookupCall(up, catalog, name) ==
  [fn |-> "_find_report_id", pc |-> "begin", up |-> up, catalog |-> catalog,
   name |-> name, result |-> None]

LookupReport ==
  /\ call.fn = "_find_report_id"
  /\ call.pc = "begin"
  /\ LET v == VendorFor(1, call.up, Ongoing(1), call.catalog, << >>)
     IN call' = [call EXCEPT !.pc = "returned",
                             !.result = FindReportId(<< >>, v, "req", call.name).id]
  /\ UNCHANGED << metrics_data, health_state, reports_cache, vendor, now,
                  utc_offset, pc, cycles, app_idx, metric_idx, collection_errors,
                  pad, scanned, exports, raised_apps, last_cycle, catalog_fetches,
                  stop, locks, threads >>

\* ------------------------------ _download_report_segments, one segment
\* t occurs in s (Python's `t in s`).
Contains(s, t) ==
  \E k \in 1..(Len(s) - Len(t) + 1) : SubSeq(s, k, k + Len(t) - 1) = t

\* s.endswith(t).
EndsWith(s, t) == Len(s) >= Len(t) /\ SubSeq(s, Len(s) - Len(t) + 1, Len(s)) = t

\* urlparse(segment_url).netloc.lower() of the urls the vendor hands out:
\* its API host, a pre-signed storage host, and a foreign host whose name
\* starts with the vendor's domain.
Hosts ==
  { "api.appstoreconnect.apple.com", "bucket.s3.amazonaws.com",
    "appstoreconnect.apple.com.evil.example" }

\* Line 667: host_is_apple.
HostIsApple(host) == Contains(host, "appstoreconnect.apple.com")

\* A second GET whatever the first failure was.
RetryWithoutAuthAlways(host_is_apple, status) == TRUE

\* Lines 688-690: the HTTP errors of the first GET that are retried without
\* the Authorization header (status 0 stands for no response).
RetryWithoutAuth(host_is_apple, status) ==
  \/ ~host_is_apple /\ status # 0 /\ 400 <= status /\ status < 500
  \/ host_is_apple /\ status \in { 401, 403 }

\* What a GET of the segment url meets.
FirstGets ==
  { Ok, HttpError(401), HttpError(403), HttpError(404), HttpError(500), ConnectionError }
SecondGets == { Ok, HttpError(403), Timeout }

\* The downloaded bytes: `gzip` says what gzip.GzipFile(...).read() does on
\* them, `text` which text they hold (inside the gzip member when there is
\* one).
\*   plain      no gzip member; read() raises BadGzipFile, an OSError
\*   valid      a gzip member
\*   bad_crc    a gzip member with a wrong CRC; read() raises BadGzipFile
\*   truncated  a gzip member cut short; read() raises EOFError
GzipKinds == { "plain", "valid", "bad_crc", "truncated" }
TextKinds ==
  { "ascii_even", "ascii_odd", "utf8_bom", "utf16_bom", "utf16le_nobom", "latin1_odd" }
Payload(gzip, text) == [gzip |-> gzip, text |-> text]

\* Line 808: data_bytes[:2] == b"\x1f\x8b".
HasMagic(payload) == payload.gzip # "plain"

\* Lines 812-821: [error, data], the bytes to parse after the attempt to
\* decompress; "gzip_bytes" are the bytes of a gzip member taken as they are.
Gunzip(payload) ==
  CASE payload.gzip = "valid" -> [error |-> "none", data |-> payload.text]
    [] payload.gzip = "plain" -> [error |-> "OSError", data |-> payload.text]
    [] payload.gzip = "bad_crc" -> [error |-> "OSError", data |-> "gzip_bytes"]
    [] payload.gzip = "truncated" -> [error |-> "EOFError", data |-> "gzip_bytes"]

\* bytes.decode(enc) succeeds on the data.
Decodes(data, enc) ==
  CASE enc = "latin-1" -> TRUE
    [] enc \in { "utf-8-sig", "utf-8" } ->
         data \in { "ascii_even", "ascii_odd", "utf8_bom", "utf16le_nobom" }
    [] enc \in { "utf-16", "utf-16le" } ->
         data \in { "ascii_even", "utf8_bom", "utf16_bom", "utf16le_nobom", "gzip_bytes" }

\* A decoder that tries UTF-16 first.
ParseCsvBytesUtf16First(data) ==
  LET order == << "utf-16", "utf-16le", "utf-8-sig", "utf-8", "latin-1" >>
      ok == { k \in 1..Len(order) : Decodes(data, order[k]) }
  IN IF ok = {} THEN [error |-> "UnicodeDecodeError", encoding |-> None]
     ELSE [error |-> "none", encoding |-> order[CHOOSE k \in ok : \A j \in ok : k <= j]]

\* Lines 750-763 of _parse_csv_bytes: the encoding the text is decoded with.
ParseCsvBytes(data) ==
  LET order == << "utf-8-sig", "utf-8", "utf-16", "utf-16le", "latin-1" >>
      ok == { k \in 1..Len(order) : Decodes(data, order[k]) }
  IN IF ok = {} THEN [error |-> "UnicodeDecodeError", encoding |-> None]
     ELSE [error |-> "none", encoding |-> order[CHOOSE k \in ok : \A j \in ok : k <= j]]

\* Lines 804-809: the payload is taken for gzip.
GzipDetected(c) ==
  \/ c.compression = "gzip"
  \/ Contains(c.ctype, "gzip")
  \/ EndsWith(c.ext, ".gz")
  \/ HasMagic(c.payload)

\* One pass of the loop body (lines 650-856) over a segment with a url, before
\* its download.
FetchCall(host, first, second, compression, ctype, ext, payload) ==
  [fn |-> "segment", pc |-> "get", host |-> host, first |-> first,
   second |-> second, compression |-> compression, ctype |-> ctype, ext |-> ext,
   payload |-> payload, tokens |-> 0, gets |-> << >>,
   gunzip |-> "not_tried", data |-> None, encoding |-> None]

\* Lines 668-690 and 711-718: the first GET, with the token when the host is
\* taken for the vendor's.
FetchGet ==
  /\ call.fn = "segment"
  /\ call.pc = "get"
  /\ LET host_is_apple == HostIsApple(call.host)
         o == call.first
         sent == [call EXCEPT !.tokens = @ + 1,
                              !.gets = Append(@, [auth |-> host_is_apple])]
     IN call' =
          IF o.kind = "ok" THEN [sent EXCEPT !.pc = "decode"]
          ELSE IF o.kind = "http_error" /\ RetryWithoutAuth(host_is_apple, o.status)
            THEN [sent EXCEPT !.pc = "retry"]
          ELSE [sent EXCEPT !.pc = "skipped"]
  /\ UNCHANGED << metrics_data, health_state, reports_cache, vendor, now,
                  utc_offset, pc, cycles, app_idx, metric_idx, collection_errors,
                  pad, scanned, exports, raised_apps, last_cycle, catalog_fetches,
                  stop, locks, threads >>
\* Lines 691-710: the second GET, without the Authorization header.
FetchRetry ==
  /\ call.fn = "segment"
  /\ call.pc = "retry"
  /\ call' = [call EXCEPT !.gets = Append(@, [auth |-> FALSE]),
                          !.pc = IF call.second.kind = "ok" THEN "decode" ELSE "skipped"]
  /\ UNCHANGED << metrics_data, health_state, reports_cache, vendor, now,
                  utc_offset, pc, cycles, app_idx, metric_idx, collection_errors,
                  pad, scanned, exports, raised_apps, last_cycle, catalog_fetches,
                  stop, locks, threads >>
\* Lines 800-855: the gzip handling and the parse of the content.  Only an
\* OSError of the decompression is caught at 819; any other exception
\* reaches the handler at 848 and the segment gives no rows.
FetchDecodeResult(c) ==
  IF ~GzipDetected(c)
    THEN LET parsed == ParseCsvBytes(c.payload.text)
         IN [c EXCEPT !.data = c.payload.text, !.encoding = parsed.encoding,
                      !.pc = IF parsed.error = "none" THEN "parsed" ELSE "skipped"]
  ELSE LET g == Gunzip(c.payload)
           parsed == ParseCsvBytes(g.data)
       IN IF g.error \in { "none", "OSError" }
            THEN [c EXCEPT !.gunzip = g.error, !.data = g.data,
                           !.encoding = parsed.encoding,
                           !.pc = IF parsed.error = "none" THEN "parsed" ELSE "skipped"]
            ELSE [c EXCEPT !.gunzip = g.error, !.pc = "skipped"]

FetchDecode ==
  /\ call.fn = "segment"
  /\ call.pc = "decode"
  /\ call' = FetchDecodeResult(call)
  /\ UNCHANGED << metrics_data, health_state, reports_cache, vendor, now,
                  utc_offset, pc, cycles, app_idx, metric_idx, collection_errors,
                  pad, scanned, exports, raised_apps, last_cycle, catalog_fetches,
                  stop, locks, threads >>

\* --------------------------- _download_report_segments, the bytes of a segment
\* Texts are sequences of code points and payloads sequences of bytes.
\* "D,C" / "5,7": a header and a row, with and without a final line feed,
\* and the same with a name outside ASCII (U+00E9).
CsvTexts ==
  { << 68, 44, 67, 10, 53, 44, 55 >>,
    << 68, 44, 67, 10, 53, 44, 55, 10 >>,
    << 233, 44, 67, 10, 53, 44, 55, 10 >> }

\* str.encode: the encodings a vendor can write the text in.
PayloadEncodings == { "utf-8", "utf-8-sig", "utf-16", "utf-16le", "utf-16be-bom" }

RECURSIVE EncodeUtf8(_)
EncodeUtf8(text) ==
  IF text = << >> THEN << >>
  ELSE LET cp == Head(text)
       IN (IF cp < 128 THEN << cp >>
           ELSE << 192 + (cp \div 64), 128 + (cp % 64) >>) \o EncodeUtf8(Tail(text))

RECURSIVE EncodeUtf16(_, _)
EncodeUtf16(text, little) ==
  IF text = << >> THEN << >>
  ELSE LET cp == Head(text)
       IN (IF little THEN << cp % 256, cp \div 256 >> ELSE << cp \div 256, cp % 256 >>)
          \o EncodeUtf16(Tail(text), little)

Encode(text, enc) ==
  CASE enc = "utf-8" -> EncodeUtf8(text)
    [] enc = "utf-8-sig" -> << 239, 187, 191 >> \o EncodeUtf8(text)
    [] enc = "utf-16" -> << 255, 254 >> \o EncodeUtf16(text, TRUE)
    [] enc = "utf-16le" -> EncodeUtf16(text, TRUE)
    [] enc = "utf-16be-bom" -> << 254, 255 >> \o EncodeUtf16(text, FALSE)

\* A failed decoding.
Undecodable == << 0 - 1 >>

IsContinuation(b) == 128 <= b /\ b <= 191

\* bytes.decode("utf-8"), for sequences of up to three bytes.
RECURSIVE DecodeUtf8(_)
DecodeUtf8(data) ==
  IF data = << >> THEN << >>
  ELSE LET b == Head(data)
           n == IF b < 128 THEN 1
                ELSE IF 194 <= b /\ b <= 223 THEN 2
                ELSE IF 224 <= b /\ b <= 239 THEN 3
                ELSE 0
       IN IF n = 0 \/ Len(data) < n
             \/ \E k \in 2..n : ~IsContinuation(data[k])
            THEN Undecodable
          ELSE LET cp == IF n = 1 THEN b
                         ELSE IF n = 2 THEN (b - 192) * 64 + (data[2] - 128)
                         ELSE (b - 224) * 4096 + (data[2] - 128) * 64 + (data[3] - 128)
                   rest == DecodeUtf8(SubSeq(data, n + 1, Len(data)))
               IN IF rest = Undecodable THEN Undecodable ELSE << cp >> \o rest

IsSurrogate(cp) == 55296 <= cp /\ cp <= 57343

\* The code units of the data in the given byte order; a lone surrogate or
\* an odd byte fails.
RECURSIVE DecodeUtf16Units(_, _)
DecodeUtf16Units(data, little) ==
  IF data = << >> THEN << >>
  ELSE IF Len(data) = 1 THEN Undecodable
  ELSE LET cp == IF little THEN data[1] + 256 * data[2] ELSE 256 * data[1] + data[2]
           rest == DecodeUtf16Units(SubSeq(data, 3, Len(data)), little)
       IN IF IsSurrogate(cp) \/ rest = Undecodable THEN Undecodable ELSE << cp >> \o rest

StartsWith(data, prefix) ==
  Len(data) >= Len(prefix) /\ SubSeq(data, 1, Len(prefix)) = prefix

\* bytes.decode(enc) for the encodings of line 754; "utf-16" takes the byte
\* order from the mark and is little-endian without one.
Decode(data, enc) ==
  CASE enc = "utf-8" -> DecodeUtf8(data)
    [] enc = "utf-8-sig" ->
         IF StartsWith(data, << 239, 187, 191 >>)
           THEN DecodeUtf8(SubSeq(data, 4, Len(data)))
           ELSE DecodeUtf8(data)
    [] enc = "utf-16" ->
         IF StartsWith(data, << 255, 254 >>)
           THEN DecodeUtf16Units(SubSeq(data, 3, Len(data)), TRUE)
         ELSE IF StartsWith(data, << 254, 255 >>)
           THEN DecodeUtf16Units(SubSeq(data, 3, Len(data)), FALSE)
         ELSE DecodeUtf16Units(data, TRUE)
    [] enc = "utf-16le" -> DecodeUtf16Units(data, TRUE)
    [] enc = "latin-1" -> data

\* Lines 752-763: the text under the first encoding that decodes.
DecodedText(data) ==
  LET order == << "utf-8-sig", "utf-8", "utf-16", "utf-16le", "latin-1" >>
      ok == { k \in 1..Len(order) : Decode(data, order[k]) # Undecodable }
      first == CHOOSE k \in ok : \A j \in ok : k <= j
  IN [encoding |-> order[first], text |-> Decode(data, order[first])]

\* The pieces of a sequence between the occurrences of a separator.
RECURSIVE Split(_, _)
Split(text, sep) ==
  IF \A k \in 1..Len(text) : text[k] # sep THEN << text >>
  ELSE LET at == CHOOSE k \in 1..Len(text) :
                   text[k] = sep /\ \A j \in 1..(k - 1) : text[j] # sep
       IN << SubSeq(text, 1, at - 1) >> \o Split(SubSeq(text, at + 1, Len(text)), sep)

\* The restkey and restval of csv.DictReader.
NoCell == << 0 - 2 >>

\* Lines 764-792: csv.DictReader over the text with the comma as delimiter
\* (no tab and no semicolon occurs); the rows with a value, each with the
\* segment's id.
CsvRows(text, segment_id) ==
  LET lines == SelectSeq(Split(text, 10), LAMBDA l : l # << >>)
      fieldnames == IF lines = << >> THEN << >> ELSE Split(lines[1], 44)
      record(l) ==
        LET cells == Split(l, 44)
            named == { fieldnames[k] : k \in 1..Len(fieldnames) }
            value(name) ==
              LET k == CHOOSE j \in 1..Len(fieldnames) :
                         fieldnames[j] = name
                           /\ \A i \in (j + 1)..Len(fieldnames) : fieldnames[i] # name
              IN IF k <= Len(cells) THEN cells[k] ELSE NoCell
            rest == IF Len(cells) > Len(fieldnames) THEN { NoCell } ELSE {}
        IN [cols |-> [name \in named \cup rest |->
                        IF name \in named THEN value(name)
                        ELSE SubSeq(cells, Len(fieldnames) + 1, Len(cells))],
            segment_id |-> segment_id]
      blank(r) == \A name \in DOMAIN r.cols : r.cols[name] \in { NoCell, << >> }
  IN IF lines = << >> THEN << >>
     ELSE SelectSeq([k \in 1..(Len(lines) - 1) |-> record(lines[k + 1])],
                    LAMBDA r : ~blank(r))

\* gzip.compress in miniature: the magic, the data, a check sum.
Crc(data) == IF data = << >> THEN 0 ELSE (Head(data) + 7 * Len(data)) % 251
GzipCompress(data) == << 31, 139 >> \o data \o << Crc(data) >>

\* Lines 812-821: gzip.GzipFile(...).read(); what is not a member, or has a
\* wrong check sum, raises BadGzipFile and the bytes are kept as they are.
GunzipBytes(data) ==
  IF Len(data) >= 3 /\ StartsWith(data, << 31, 139 >>)
       /\ Crc(SubSeq(data, 3, Len(data) - 1)) = data[Len(data)]
    THEN SubSeq(data, 3, Len(data) - 1)
    ELSE data

\* Lines 800-830: the rows of a downloaded content.
SegmentContentRows(content, compression, segment_id) ==
  LET data_bytes == IF compression = "gzip" \/ StartsWith(content, << 31, 139 >>)
                      THEN GunzipBytes(content)
                      ELSE content
  IN CsvRows(DecodedText(data_bytes).text, segment_id)

\* The content of a segment after its download, written by the vendor from
\* `text` in `encoding`, compressed or not.
ContentCall(text, encoding, gzipped, compression) ==
  [fn |-> "content", pc |-> "decode", text |-> text, encoding |-> encoding,
   gzipped |-> gzipped, compression |-> compression,
   content |-> IF gzipped THEN GzipCompress(Encode(text, encoding))
               ELSE Encode(text, encoding),
   parsed_rows |-> << >>]

ContentDecode ==
  /\ call.fn = "content"
  /\ call.pc = "decode"
  /\ call' = [call EXCEPT
       !.pc = "parsed",
       !.parsed_rows = SegmentContentRows(call.content, call.compression, SegmentIds[1])]
  /\ UNCHANGED << metrics_data, health_state, reports_cache, vendor, now,
                  utc_offset, pc, cycles, app_idx, metric_idx, collection_errors,
                  pad, scanned, exports, raised_apps, last_cycle, catalog_fetches,
                  stop, locks, threads >>

\* ------------------------------------------------ _format_prometheus_output
\* Rows whose export leaves the entries a reader meets: counts of 0 are
\* exported (line 1201 drops negative values only).
RenderRows ==
  { DownloadsRow(DayMinus2, "0"), DownloadsRow(DayMinus2, "5"),
    DownloadsRow(DayMinus1, "0"), DownloadsRow(DayMinus1, "7") }

\* The store after _export_metrics of metric `metric` for each [app, row] of
\* q in turn, as lines 1199-1204 call it.
RECURSIVE ExportedStore(_, _)
ExportedStore(q, metric) ==
  IF q = << >> THEN << >>
  ELSE LET e == q[Len(q)]
       IN ExportMetrics(ExportedStore(SubSeq(q, 1, Len(q) - 1), metric), APPS[e.app],
                        e.row, METRICS[metric].key,
                        ExtractNumber(Get(e.row, "Counts")), DateVal(e.row, ""),
                        StartTime, 0)

\* A call of _format_prometheus_output on the store it finds.
FormatCall(store) ==
  [fn |-> "_format_prometheus_output", pc |-> "begin", store |-> store, lines |-> << >>]

\* Lines 186-262: the snapshot is built from the store under _metrics_lock;
\* the store is only read.
Render ==
  /\ call.fn = "_format_prometheus_output"
  /\ call.pc = "begin"
  /\ call' = [call EXCEPT !.pc = "returned",
                          !.lines = FormatPrometheusOutput(metrics_data)]
  /\ UNCHANGED << metrics_data, health_state, reports_cache, vendor, now,
                  utc_offset, pc, cycles, app_idx, metric_idx, collection_errors,
                  pad, scanned, exports, raised_apps, last_cycle, catalog_fetches,
                  stop, locks, threads >>

\* ------------------------------ _download_report_segments, the segment pages
\* The segment listing of an instance as the vendor serves it: page 1 is the
\* answer to the first request; links[p] is the page that links.next of
\* page p names (0: the page has no links.next); ok[p] says whether a GET
\* of page p as a next page succeeds.
MaxPages == 3
NoPage == 0

\* How often a page's data is in segments_data: 0, 1, or 2 for twice or
\* more (the list itself grows without bound when pages repeat).
Extended(times) == IF times < 2 THEN times + 1 ELSE 2

PagesCall(links, ok) ==
  [fn |-> "segment_pages", pc |-> "extend", links |-> links, ok |-> ok, page |-> 1,
   segments_data |-> [p \in DOMAIN links |-> 0], tokens |-> 0]

\* Lines 622-625: the data of the page is added; without a links.next the
\* loop ends.
PageExtend ==
  /\ call.fn = "segment_pages"
  /\ call.pc = "extend"
  /\ call' = [call EXCEPT
       !.segments_data[call.page] = Extended(@),
       !.pc = IF call.links[call.page] = NoPage THEN "listed" ELSE "fetch"]
  /\ UNCHANGED << metrics_data, health_state, reports_cache, vendor, now,
                  utc_offset, pc, cycles, app_idx, metric_idx, collection_errors,
                  pad, scanned, exports, raised_apps, last_cycle, catalog_fetches,
                  stop, locks, threads >>

\* Lines 626-636: the next page is fetched with a token of its own; a
\* failure ends the loop with the segments gathered so far.
PageFetch ==
  /\ call.fn = "segment_pages"
  /\ call.pc = "fetch"
  /\ LET next_url == call.links[call.page]
     IN call' = [call EXCEPT
          !.tokens = IF @ < MaxPages THEN @ + 1 ELSE @,
          !.page = IF call.ok[next_url] THEN next_url ELSE @,
          !.pc = IF call.ok[next_url] THEN "extend" ELSE "listed"]
  /\ UNCHANGED << metrics_data, health_state, reports_cache, vendor, now,
                  utc_offset, pc, cycles, app_idx, metric_idx, collection_errors,
                  pad, scanned, exports, raised_apps, last_cycle, catalog_fetches,
                  stop, locks, threads >>

\* ----------------------------------------------------------- single calls
MaxRetries == 3
MaxSegments == 3
MaxStoreEntries == 2

\* The collector is idle while a single call is followed.
InitIdle(c) ==
  /\ metrics_data = << >>
  /\ health_state = HealthInit
  /\ reports_cache = << >>
  /\ vendor = << Unreachable(1), Unreachable(2) >>
  /\ now = StartTime
  /\ utc_offset = 0
  /\ pc = "idle"
  /\ cycles = 0
  /\ app_idx = 1
  /\ metric_idx = 1
  /\ collection_errors = 0
  /\ pad = PadIdle
  /\ scanned = << >>
  /\ exports = << >>
  /\ raised_apps = {}
  /\ last_cycle = NoCycle
  /\ catalog_fetches = << >>
  /\ call = c
  /\ stop = FALSE
  /\ locks = Unlocked
  /\ threads = NoThreads

\* The collector is idle while a reader is served from the store it left.
InitRead(store, c) ==
  /\ metrics_data = store
  /\ health_state = HealthInit
  /\ reports_cache = << >>
  /\ vendor = << Unreachable(1), Unreachable(2) >>
  /\ now = StartTime
  /\ utc_offset = 0
  /\ pc = "idle"
  /\ cycles = 0
  /\ app_idx = 1
  /\ metric_idx = 1
  /\ collection_errors = 0
  /\ pad = PadIdle
  /\ scanned = << >>
  /\ exports = << >>
  /\ raised_apps = {}
  /\ last_cycle = NoCycle
  /\ catalog_fetches = << >>
  /\ call = c
  /\ stop = FALSE
  /\ locks = Unlocked
  /\ threads = NoThreads

InitCalls ==
  \/ \E retries \in 1..MaxRetries : \E script \in [1..retries -> Outcomes] :
       InitIdle(ApiCall(retries, script))
  \/ \E fn \in AscFunctions, max_retries \in 1..MaxRetries :
       \E script \in [1..max_retries -> Outcomes] :
         InitIdle(AscCall(fn, max_retries, script))
  \/ \E n \in 0..MaxSegments, listing_ok \in BOOLEAN, next_ok \in BOOLEAN :
       \E kinds \in [1..n -> SegmentKinds], first_page \in 0..n :
         /\ listing_ok \/ n = 0
         /\ next_ok \/ first_page < n
         /\ InitIdle(SegmentsCall(listing_ok,
                       [k \in 1..n |-> Segment(SegmentIds[k], kinds[k])],
                       first_page, next_ok))
  \/ \E up \in BOOLEAN, catalog \in LookupCatalogs, name \in RequestedNames :
       InitIdle(LookupCall(up, catalog, name))
  \/ \E host \in Hosts, first \in FirstGets, second \in SecondGets,
        compression \in { "", "gzip" }, ctype \in { "text/csv", "application/x-gzip" },
        ext \in { ".csv", ".gz" }, gzip \in GzipKinds, text \in TextKinds :
       InitIdle(FetchCall(host, first, second, compression, ctype, ext,
                          Payload(gzip, text)))
  \/ \E text \in CsvTexts, encoding \in PayloadEncodings, gzipped \in BOOLEAN,
        compression \in { "", "gzip" } :
       InitIdle(ContentCall(text, encoding, gzipped, compression))
  \/ \E q \in SeqsUpTo([app : 1..Len(APPS), row : RenderRows], MaxStoreEntries),
        metric \in 1..Len(METRICS), failed \in BOOLEAN :
       LET exported == ExportedStore(q, metric)
           store == IF failed
                      THEN CountParsingError(exported, APPS[1].name,
                                             METRICS[metric].report_type, StartTime)
                      ELSE exported
       IN InitRead(store, FormatCall(store))

NextCalls ==
  \/ ApiBegin
  \/ ApiAttempt
  \/ AscAttempt
  \/ SegmentsList
  \/ SegmentStep
  \/ LookupReport
  \/ FetchGet
  \/ FetchRetry
  \/ FetchDecode
  \/ ContentDecode
  \/ Render

SpecCalls == InitCalls /\ [][NextCalls]_vars

InitPages ==
  \E links \in [1..MaxPages -> 0..MaxPages], ok \in [1..MaxPages -> BOOLEAN] :
    InitIdle(PagesCall(links, ok))

NextPages == PageExtend \/ PageFetch

\* The thread that runs the loop is never held back: neither step waits on
\* another thread, and the GET has a timeout of 60 seconds.
SpecPages == InitPages /\ [][NextPages]_vars /\ WF_vars(NextPages)

\* ------------------------------------------------------------------ locks
\* The threads of the process followed through their critical sections: the
\* collector through one cycle, a reader of /metrics and a reader of
\* /healthz.  A `with lock:` is a step that takes the lock when it is free
\* and a step that gives it back after the body.
Acquire(l, lock, who) == [l EXCEPT ![lock] = who]

\* A section that keeps its lock.
ReleaseNever(l, lock) == l

Release(l, lock) == [l EXCEPT ![lock] = "free"]

\* An exception that leaves the locks as they are.
KeepOnRaise(l, who) == l

\* __exit__ of every `with` the exception of thread `who` passes through.
ReleaseOnRaise(l, who) == [lock \in DOMAIN l |-> IF l[lock] = who THEN "free" ELSE l[lock]]

\* The positions of the collector at which a request to the vendor is in
\* progress: _find_existing_report_request, _find_report_id, the listing of
\* the instances, _download_report_segments.
NetworkPositions == << "find_request", "find_report", "list_instances", "download" >>

Collector(pos, app, metric, rows) ==
  [pos |-> pos, app |-> app, metric |-> metric, rows |-> rows]

OtherThanThreads ==
  << metrics_data, health_state, reports_cache, vendor, now, utc_offset, pc, cycles,
     app_idx, metric_idx, collection_errors, pad, scanned, exports, raised_apps,
     last_cycle, catalog_fetches, call, stop >>

\* Line 1308: _run_metrics_collection enters the section that clears the store.
ClearEnter ==
  /\ threads.collector.pos = "loop"
  /\ locks.metrics = "free"
  /\ locks' = Acquire(locks, "metrics", "collector")
  /\ threads' = [threads EXCEPT !.collector.pos = "clearing"]
  /\ UNCHANGED OtherThanThreads

\* Lines 1309-1324: the store is cleared, the lock released, and the first
\* application is started.
ClearLeave ==
  /\ threads.collector.pos = "clearing"
  /\ locks' = Release(locks, "metrics")
  /\ threads' = [threads EXCEPT !.collector = Collector("find_request", 1, 1, 0)]
  /\ UNCHANGED OtherThanThreads

\* Lines 942-1046: a request to the vendor ends; the next one starts, or the
\* export loop of lines 1156-1207 with the rows that were pooled, or the
\* call returns for want of data, or the request raised and the handler of
\* line 1266 is entered.
Network ==
  /\ \E k \in 1..Len(NetworkPositions) :
       /\ threads.collector.pos = NetworkPositions[k]
       /\ \/ /\ k < Len(NetworkPositions)
             /\ threads' = [threads EXCEPT !.collector.pos = NetworkPositions[k + 1]]
          \/ /\ k = Len(NetworkPositions)
             /\ \E rows \in 1..MaxPoolRows :
                  threads' = [threads EXCEPT !.collector.pos = "export",
                                             !.collector.rows = rows]
          \/ threads' = [threads EXCEPT !.collector.pos = "returned"]
          \/ threads' = [threads EXCEPT !.collector.pos = "except"]
  /\ UNCHANGED locks
  /\ UNCHANGED OtherThanThreads

\* Line 907: _export_metrics enters the section that writes one sample.
WriteEnter ==
  /\ threads.collector.pos = "export"
  /\ locks.metrics = "free"
  /\ locks' = Acquire(locks, "metrics", "collector")
  /\ threads' = [threads EXCEPT !.collector.pos = "writing"]
  /\ UNCHANGED OtherThanThreads

\* Line 908: the sample is written and the lock released.
WriteLeave ==
  /\ threads.collector.pos = "writing"
  /\ locks' = Release(locks, "metrics")
  /\ threads' = [threads EXCEPT
       !.collector.rows = @ - 1,
       !.collector.pos = IF threads.collector.rows > 1 THEN "export" ELSE "returned"]
  /\ UNCHANGED OtherThanThreads

\* Line 1269: the handler enters the section that counts the error.
CountEnter ==
  /\ threads.collector.pos = "except"
  /\ locks.metrics = "free"
  /\ locks' = Acquire(locks, "metrics", "collector")
  /\ threads' = [threads EXCEPT !.collector.pos = "counting"]
  /\ UNCHANGED OtherThanThreads

\* Lines 1270-1277.
CountLeave ==
  /\ threads.collector.pos = "counting"
  /\ locks' = Release(locks, "metrics")
  /\ threads' = [threads EXCEPT !.collector.pos = "returned"]
  /\ UNCHANGED OtherThanThreads

\* Lines 1291-1301 and 1323-1329: the next metric definition, the next
\* application, or the end of the applications.
Returned ==
  /\ threads.collector.pos = "returned"
  /\ LET c == threads.collector
     IN threads' = [threads EXCEPT !.collector =
          IF c.metric < Len(METRICS) THEN Collector("find_request", c.app, c.metric + 1, 0)
          ELSE IF c.app < Len(APPS) THEN Collector("find_request", c.app + 1, 1, 0)
          ELSE Collector("judge", c.app, c.metric, 0)]
  /\ UNCHANGED locks
  /\ UNCHANGED OtherThanThreads

\* Line 1332: the section that updates the health state is entered.
JudgeEnter ==
  /\ threads.collector.pos = "judge"
  /\ locks.health = "free"
  /\ locks' = Acquire(locks, "health", "collector")
  /\ threads' = [threads EXCEPT !.collector.pos = "judging"]
  /\ UNCHANGED OtherThanThreads

\* Lines 1333-1353: the health state is updated; when it is healthy the
\* collector goes on to the section that stamps the store, inside this one,
\* otherwise the health lock is released and the cycle is over.
JudgeLeave ==
  /\ threads.collector.pos = "judging"
  /\ \/ /\ threads' = [threads EXCEPT !.collector.pos = "stamp"]
        /\ UNCHANGED locks
     \/ /\ locks' = Release(locks, "health")
        /\ threads' = [threads EXCEPT !.collector.pos = "wait"]
  /\ UNCHANGED OtherThanThreads

\* Line 1354: the section that stamps the store is entered with the health
\* lock held.
StampEnter ==
  /\ threads.collector.pos = "stamp"
  /\ locks.metrics = "free"
  /\ locks' = Acquire(locks, "metrics", "collector")
  /\ threads' = [threads EXCEPT !.collector.pos = "stamping"]
  /\ UNCHANGED OtherThanThreads

\* Lines 1355-1360: the stamp is written and both sections are left.
StampLeave ==
  /\ threads.collector.pos = "stamping"
  /\ locks' = Release(Release(locks, "metrics"), "health")
  /\ threads' = [threads EXCEPT !.collector.pos = "wait"]
  /\ UNCHANGED OtherThanThreads

\* An exception raised inside a section leaves it through the `with`: in
\* _run_metrics_collection outside the per-application try it leaves the
\* run (line 1409); in _export_metrics it reaches the handler of line 1266;
\* in that handler it reaches the per-application handler of line 1327; in
\* a request it ends the request.
Raises ==
  /\ \/ /\ threads.collector.pos \in { "clearing", "judging", "stamp", "stamping" }
        /\ locks' = ReleaseOnRaise(locks, "collector")
        /\ threads' = [threads EXCEPT !.collector.pos = "failed"]
     \/ /\ threads.collector.pos = "writing"
        /\ locks' = ReleaseOnRaise(locks, "collector")
        /\ threads' = [threads EXCEPT !.collector.pos = "except", !.collector.rows = 0]
     \/ /\ threads.collector.pos = "counting"
        /\ locks' = ReleaseOnRaise(locks, "collector")
        /\ threads' = [threads EXCEPT !.collector.pos = "returned",
                                      !.collector.metric = Len(METRICS)]
     \/ /\ threads.scraper = "rendering"
        /\ locks' = ReleaseOnRaise(locks, "scraper")
        /\ threads' = [threads EXCEPT !.scraper = "idle"]
     \/ /\ threads.prober = "reading"
        /\ locks' = ReleaseOnRaise(locks, "prober")
        /\ threads' = [threads EXCEPT !.prober = "idle"]
  /\ UNCHANGED OtherThanThreads

\* Line 1412: the loop enters the section that records the failed run.
FailEnter ==
  /\ threads.collector.pos = "failed"
  /\ locks.health = "free"
  /\ locks' = Acquire(locks, "health", "collector")
  /\ threads' = [threads EXCEPT !.collector.pos = "failing"]
  /\ UNCHANGED OtherThanThreads

\* Lines 1413-1414.
FailLeave ==
  /\ threads.collector.pos = "failing"
  /\ locks' = Release(locks, "health")
  /\ threads' = [threads EXCEPT !.collector.pos = "wait"]
  /\ UNCHANGED OtherThanThreads

\* Lines 1416 and 1406: the interval passes and the loop goes round.
Sleep ==
  /\ threads.collector.pos = "wait"
  /\ threads' = [threads EXCEPT !.collector = Collector("loop", 1, 1, 0)]
  /\ UNCHANGED locks
  /\ UNCHANGED OtherThanThreads

\* Line 195: a reader of /metrics enters the section that renders the store.
RenderEnter ==
  /\ threads.scraper = "idle"
  /\ locks.metrics = "free"
  /\ locks' = Acquire(locks, "metrics", "scraper")
  /\ threads' = [threads EXCEPT !.scraper = "rendering"]
  /\ UNCHANGED OtherThanThreads

\* Lines 196-262.
RenderLeave ==
  /\ threads.scraper = "rendering"
  /\ locks' = Release(locks, "metrics")
  /\ threads' = [threads EXCEPT !.scraper = "idle"]
  /\ UNCHANGED OtherThanThreads

\* Line 1450: a reader of /healthz enters the section that reads the state.
ProbeEnter ==
  /\ threads.prober = "idle"
  /\ locks.health = "free"
  /\ locks' = Acquire(locks, "health", "prober")
  /\ threads' = [threads EXCEPT !.prober = "reading"]
  /\ UNCHANGED OtherThanThreads

\* Lines 1451-1456.
ProbeLeave ==
  /\ threads.prober = "reading"
  /\ locks' = Release(locks, "health")
  /\ threads' = [threads EXCEPT !.prober = "idle"]
  /\ UNCHANGED OtherThanThreads

\* The collector is about to run a cycle and both readers are idle.
InitLocks ==
  /\ metrics_data = << >>
  /\ health_state = HealthInit
  /\ reports_cache = << >>
  /\ vendor = << Unreachable(1), Unreachable(2) >>
  /\ now = StartTime
  /\ utc_offset = 0
  /\ pc = "idle"
  /\ cycles = 0
  /\ app_idx = 1
  /\ metric_idx = 1
  /\ collection_errors = 0
  /\ pad = PadIdle
  /\ scanned = << >>
  /\ exports = << >>
  /\ raised_apps = {}
  /\ last_cycle = NoCycle
  /\ catalog_fetches = << >>
  /\ call = NoCall
  /\ stop = FALSE
  /\ locks = Unlocked
  /\ threads = [collector |-> Collector("loop", 1, 1, 0), scraper |-> "idle",
                prober |-> "idle"]

NextLocks ==
  \/ ClearEnter
  \/ ClearLeave
  \/ Network
  \/ WriteEnter
  \/ WriteLeave
  \/ CountEnter
  \/ CountLeave
  \/ Returned
  \/ JudgeEnter
  \/ JudgeLeave
  \/ StampEnter
  \/ StampLeave
  \/ Raises
  \/ FailEnter
  \/ FailLeave
  \/ Sleep
  \/ RenderEnter
  \/ RenderLeave
  \/ ProbeEnter
  \/ ProbeLeave

SpecLocks == InitLocks /\ [][NextLocks]_vars

\* ================================================================== claims
Range(seq) == { seq[i] : i \in 1..Len(seq) }

\* The rows of the instances the running call has scanned, in scan order.
RowsOfInstance(id) ==
  LET v == vendor[app_idx]
      known == UNION { Range(v.instances[r]) : r \in DOMAIN v.instances }
  IN (CHOOSE inst \in known : inst.id = id).rows
PooledRows == Flatten([i \in 1..Len(scanned) |-> RowsOfInstance(scanned[i])])

\* The Dimensional Key of a row: its effective date and every column=value
\* pair that is neither the value column nor metadata.
DimensionalKey(row) ==
  [date |-> DateVal(row, ""),
   dims |-> { << k, row[k] >> : k \in { c \in DOMAIN row : c # ValueCol /\ ~IsMeta(c) } }]

HasValue(row) == ValueCol \in DOMAIN row /\ row[ValueCol] \notin { None, "" }
WellFormed(rows) == \A r \in Range(rows) : NoneKey \notin DOMAIN r

\* The first row of rows that has the key.
FirstWithKey(rows, key) ==
  rows[CHOOSE i \in 1..Len(rows) :
         /\ DimensionalKey(rows[i]) = key
         /\ \A j \in 1..(i - 1) : DimensionalKey(rows[j]) # key]

OneExportPerKey ==
  \A i, j \in 1..Len(exports) :
    i # j => DimensionalKey(exports[i].row) # DimensionalKey(exports[j].row)

\* Scenario A: instances covering D-1 and D-2, the D-2 row identical in both.
ScenarioA ==
  << Instance("i1", "1970-01-15", << DownloadsRow(DayMinus2, "5") >>),
     Instance("i2", "1970-01-16", << DownloadsRow(DayMinus1, "5"),
                                     DownloadsRow(DayMinus2, "5") >>) >>
RunsScenarioA ==
  /\ metric_idx = 1
  /\ vendor[app_idx] = VendorFor(1, TRUE, Ongoing(1), << DownloadsReport(1) >>, ScenarioA)

\* C1, as the specification states it: when a call has returned, no two of
\* its exports have the same Dimensional Key, every export is for the first
\* row with its key among the rows pooled in all_rows, and Scenario A gives
\* exactly 2 exports.
C1_FirstRowExported ==
  pc = "returned" =>
    /\ OneExportPerKey
    /\ \A i \in 1..Len(exports) :
         exports[i].row = FirstWithKey(pad.all_rows, DimensionalKey(exports[i].row))
    /\ RunsScenarioA => Len(exports) = 2

\* C1, amended: when a call has returned, no two of its exports have the
\* same Dimensional Key, every export is for the first row with its key and
\* a non-empty value among the rows the cross-instance stage kept, and
\* Scenario A gives exactly 2 exports.
C1_FirstValuedRowExported ==
  pc = "returned" =>
    /\ OneExportPerKey
    /\ \A i \in 1..Len(exports) :
         exports[i].row =
           FirstWithKey(SelectSeq(pad.all_rows, HasValue), DimensionalKey(exports[i].row))
    /\ RunsScenarioA => Len(exports) = 2

\* A call has returned after exporting a row and dropping a later row that
\* has the same Dimensional Key and another value.
C1_Witness ==
  /\ pc = "returned"
  /\ \E i, j \in 1..Len(pad.all_rows) :
       /\ i < j
       /\ HasValue(pad.all_rows[i]) /\ HasValue(pad.all_rows[j])
       /\ DimensionalKey(pad.all_rows[i]) = DimensionalKey(pad.all_rows[j])
       /\ pad.all_rows[i] \in { exports[e].row : e \in 1..Len(exports) }
       /\ pad.all_rows[j] \notin { exports[e].row : e \in 1..Len(exports) }

\* C2: the health update of a cycle in which k of the n applications raised
\* leaves healthy true and last_error None when k = 0, healthy true and
\* last_error "Failed to collect metrics for k/n apps" when 0 < k < n, and
\* healthy as it was when k = n, which is false when no cycle succeeded
\* before.
C2_HealthAfterCycle ==
  [][(pc = "health" /\ pc' = "wait") =>
       LET k == Cardinality(raised_apps)
           n == Len(APPS)
       IN /\ k = 0 => health_state'.healthy /\ health_state'.last_error = None
          /\ (0 < k /\ k < n) =>
               /\ health_state'.healthy
               /\ health_state'.last_error =
                    "Failed to collect metrics for " \o ToString(k) \o "/"
                      \o ToString(n) \o " apps"
          /\ k = n => health_state'.healthy = health_state.healthy
          /\ (k = n /\ health_state.last_successful_collection = NoneTime) =>
               ~health_state'.healthy]_vars

\* The third completed cycle was a total failure and health stays healthy.
C2_Witness ==
  /\ pc = "wait"
  /\ health_state.collections_count = 3
  /\ last_cycle.done = 3
  /\ Cardinality(last_cycle.raised) = Len(APPS)
  /\ health_state.healthy
  /\ health_state.last_error = "Failed to collect metrics for 2/2 apps"

\* C3: once a cycle has fully or partially succeeded, healthy is true in
\* every later state.
C3_NeverRegresses ==
  health_state.last_successful_collection # NoneTime => health_state.healthy

\* C4: when a cycle in which every application failed has been judged, the
\* store still holds every sample the cycle before it left and health is
\* healthy.
C4_SamplesSurvive ==
  ( /\ pc = "wait"
    /\ last_cycle.done >= 2
    /\ last_cycle.done = health_state.collections_count
    /\ raised_apps = last_cycle.raised
    /\ Cardinality(last_cycle.raised) = Len(APPS)
    /\ Samples(last_cycle.before) # << >> )
  => /\ health_state.healthy
     /\ Range(Samples(last_cycle.before)) \subseteq Range(metrics_data)

\* C5: a first cycle in which every vendor call fails for every application
\* counts every application as failed and leaves healthy false.
C5_FailedAppsCounted ==
  ( /\ pc = "wait"
    /\ cycles = 1
    /\ last_cycle.done = 1
    /\ \A a \in 1..Len(APPS) : ~last_cycle.vendor[a].api_up )
  => /\ collection_errors = Len(APPS)
     /\ ~health_state.healthy

\* C6: over well-formed rows, a pooled row the cross-instance stage did not
\* keep has an earlier pooled row with the same columns and the same
\* content, and a row with a non-negative value that was kept and passed
\* the filters but was not exported has an earlier kept row with the same
\* columns and the same Dimensional Key.
C6_SchemasNeverSuppress ==
  (pc = "returned" /\ WellFormed(PooledRows)) =>
    /\ \A j \in 1..Len(PooledRows) :
         PooledRows[j] \notin Range(pad.all_rows) =>
           \E i \in 1..(j - 1) :
             /\ SchemaCols(PooledRows[i]) = SchemaCols(PooledRows[j])
             /\ InstanceUniqueKey(PooledRows[i]) = InstanceUniqueKey(PooledRows[j])
    /\ \A j \in 1..Len(pad.all_rows) :
         LET row == pad.all_rows[j] IN
         ( /\ HasValue(row) /\ ExtractNumber(row[ValueCol]) >= 0
           /\ MissingLabels(row, METRICS[metric_idx].key) = {}
           /\ ~RowFiltered(row, METRICS[metric_idx].row_filter)
           /\ row \notin { exports[e].row : e \in 1..Len(exports) } )
         => \E i \in 1..(j - 1) :
              /\ SchemaCols(pad.all_rows[i]) = SchemaCols(row)
              /\ DimensionalKey(pad.all_rows[i]) = DimensionalKey(row)

\* The instances the listing of the running call returned.
Listed ==
  LET m == METRICS[metric_idx]
      v == vendor[app_idx]
      report_request_id == FindExistingReportRequest(v)
      found == FindReportId(reports_cache, v, report_request_id, m.report_type)
      resp == ListInstances(v, found.id)
  IN IF ~Truthy(report_request_id) \/ ~Truthy(found.id) \/ resp.raised
       THEN << >> ELSE resp.data

\* The first 10 characters of processingDate are >= today minus DAYS_TO_FETCH.
InsideWindow(inst) ==
  /\ inst.processingDate # None
  /\ TextGE(Trunc10(inst.processingDate),
            IsoDate(Today(now, utc_offset) - DAYS_TO_FETCH))

\* C7: when the scan of a call is over, the instances it passed to
\* _download_report_segments are exactly the listed instances inside the
\* window.
C7_WindowScanned ==
  pc \in { "rows", "returned", "failed" } =>
    \A inst \in Range(Listed) : inst.id \in Range(scanned) <=> InsideWindow(inst)

\* C8: every export is for a row with a non-empty, non-negative value, and
\* the step that processes a row whose value is missing, empty or negative
\* leaves the store and the exports unchanged.
C8_NoValueNoExport ==
  /\ [](\A e \in 1..Len(exports) :
          HasValue(exports[e].row) /\ ExtractNumber(exports[e].row[ValueCol]) >= 0)
  /\ [][(pc = "rows" /\ (~HasValue(CurrentRow)
                           \/ ExtractNumber(CurrentRow[ValueCol]) < 0))
          => (metrics_data' = metrics_data /\ exports' = exports)]_vars

\* A call has returned, having kept a row with an empty value and a row with
\* a negative value, with no export and an empty store.
C8_Witness ==
  /\ pc = "returned"
  /\ \E r \in Range(pad.all_rows) : ValueCol \in DOMAIN r /\ r[ValueCol] = ""
  /\ \E r \in Range(pad.all_rows) : HasValue(r) /\ ExtractNumber(r[ValueCol]) < 0
  /\ \A r \in Range(pad.all_rows) : MissingLabels(r, METRICS[metric_idx].key) = {}
  /\ exports = << >>
  /\ metrics_data = << >>

\* C9: after an export the store holds exactly one entry with the export's
\* key and it holds the exported value; an export whose key the store held
\* already leaves the number of entries and every other entry as they were.
C9_OverwriteInPlace ==
  [][Len(exports') = Len(exports) + 1 =>
       LET e == exports'[Len(exports')]
           at == StoreIndex(metrics_data', "tuple", e.key)
           was == StoreIndex(metrics_data, "tuple", e.key)
       IN /\ Cardinality(at) = 1
          /\ \A i \in at : metrics_data'[i].value = e.value
          /\ was # {} =>
               /\ Len(metrics_data') = Len(metrics_data)
               /\ \A i \in 1..Len(metrics_data) :
                    i \notin at => metrics_data'[i] = metrics_data[i]]_vars

\* Two exports of a call had the same key and different values, and the
\* store holds one entry with that key and the later value.
C9_Witness ==
  \E i, j \in 1..Len(exports) :
    /\ i < j
    /\ exports[i].key = exports[j].key
    /\ exports[i].value # exports[j].value
    /\ Len(metrics_data) = 1
    /\ metrics_data[1].key = exports[j].key
    /\ metrics_data[1].value = exports[j].value

\* C10, as the specification states it: a cycle that ran on the input of the
\* cycle before it leaves the snapshot that cycle left.
C10_SameSnapshot ==
  last_cycle.repeat =>
    FormatPrometheusOutput(last_cycle.store) = FormatPrometheusOutput(last_cycle.before)

\* C10, amended: a cycle that ran on the input of the cycle before it, on
\* the same day, leaves the sample lines of every configured metric that
\* cycle left.
C10_SameSamples ==
  last_cycle.repeat =>
    \A i \in 1..Len(METRICS) :
      MetricLines(last_cycle.store, METRICS[i]) = MetricLines(last_cycle.before, METRICS[i])

\* A cycle repeated the input of the cycle before it and left sample lines.
C10_Witness ==
  /\ last_cycle.repeat
  /\ \E i \in 1..Len(METRICS) : MetricLines(last_cycle.store, METRICS[i]) # << >>

\* C11: the step that starts a cycle leaves in the store exactly the entries
\* of appstore_exporter_parsing_errors_total it held, each with its value
\* and timestamp, and no step at all leaves the store without an error
\* counter it held.
C11_ClearKeepsErrorCounters ==
  /\ [][(pc = "loop" /\ pc' = "metric") =>
          /\ \A e \in Range(metrics_data') : e.key[1] = ERRORS_METRIC
          /\ \A e \in Range(metrics_data) :
               e.key[1] = ERRORS_METRIC => e \in Range(metrics_data')
          /\ Range(metrics_data') \subseteq Range(metrics_data)
          /\ Samples(metrics_data') = << >>]_vars
  /\ [][\A e \in Range(metrics_data) :
          e.key[1] = ERRORS_METRIC =>
            \E f \in Range(metrics_data') : f.key = e.key /\ f.value >= e.value]_vars

\* A cycle has just started on a store that keeps an error counter, after a
\* cycle that left samples.
C11_Witness ==
  /\ pc = "metric" /\ app_idx = 1 /\ metric_idx = 1
  /\ cycles >= 2
  /\ Samples(last_cycle.store) # << >>
  /\ \E e \in Range(metrics_data) : e.key[1] = ERRORS_METRIC
  /\ Samples(metrics_data) = << >>

\* C12: a step in which an application's processing raises goes on to the
\* next application in configuration order, or to the health update after
\* the last one; a call of _process_analytics_data that failed returns and
\* the next metric definition of the application follows; and the health
\* update is reached from the last application only.
C12_EveryAppEveryMetric ==
  [][/\ (pc = "metric" /\ collection_errors' = collection_errors + 1) =>
          IF app_idx < Len(APPS)
            THEN pc' = "metric" /\ app_idx' = app_idx + 1 /\ metric_idx' = 1
            ELSE pc' = "health"
     /\ pc = "failed" => (pc' = "returned" /\ UNCHANGED << app_idx, metric_idx >>)
     /\ pc = "returned" =>
          IF metric_idx < Len(METRICS)
            THEN pc' = "metric" /\ metric_idx' = metric_idx + 1 /\ app_idx' = app_idx
          ELSE IF app_idx < Len(APPS)
            THEN pc' = "metric" /\ metric_idx' = 1 /\ app_idx' = app_idx + 1
          ELSE pc' = "health"
     /\ pc' = "health" => app_idx = Len(APPS)]_vars

\* The first application raised, and the second one is at its second metric
\* definition after its first one failed.
C12_Witness ==
  /\ cycles = 1
  /\ pc = "metric" /\ app_idx = 2 /\ metric_idx = 2
  /\ 1 \in raised_apps
  /\ \E e \in Range(metrics_data) :
       e.key = << ERRORS_METRIC, APPS[2].name, METRICS[1].report_type >>

\* C13: when the listing succeeded, the call returns the rows of every
\* listed segment that downloads and decodes, in listing order, whatever
\* the other segments are.
C13_SegmentsIsolated ==
  (call.fn = "_download_report_segments" /\ call.pc = "returned" /\ call.listing_ok) =>
    call.result =
      Flatten([k \in 1..Len(call.segments_data) |->
                 IF call.segments_data[k].kind \in { "ok", "unauthorized" }
                   THEN SegmentRows(call.segments_data[k]) ELSE << >>])

\* Report names that are equal ignoring case.
NameClasses ==
  { { "App Downloads Standard", "app downloads standard" },
    { "App Sessions Standard", "APP SESSIONS STANDARD" } }
EqualIgnoringCase(a, b) == a = b \/ \E c \in NameClasses : a \in c /\ b \in c

\* C14: a lookup the API answers returns the id of the first catalog entry
\* whose name equals the requested name ignoring case and None when there
\* is none; on the catalog of scenario B "app downloads standard" gives the
\* first entry and "Downloads" gives None.
C14_ExactNameIgnoringCase ==
  (call.fn = "_find_report_id" /\ call.pc = "returned" /\ call.up) =>
    LET equal == { i \in 1..Len(call.catalog) :
                     EqualIgnoringCase(call.catalog[i].name, call.name) }
    IN /\ equal = {} => call.result = None
       /\ equal # {} =>
            call.result = call.catalog[CHOOSE i \in equal : \A j \in equal : i <= j].id
       /\ (call.catalog = CatalogB /\ call.name = "app downloads standard") =>
            call.result = CatalogB[1].id
       /\ (call.catalog = CatalogB /\ call.name = "Downloads") => call.result = None

\* A lookup of "app downloads standard" in the catalog of scenario B has
\* returned its first entry.
C14_Witness ==
  /\ call.fn = "_find_report_id" /\ call.pc = "returned" /\ call.up
  /\ call.catalog = CatalogB
  /\ call.name = "app downloads standard"
  /\ call.result = "r1"

\* C15: the API answers at most one catalog fetch per report request id, the
\* answer is in the cache, and no step changes or removes a cache entry.
C15_CatalogFetchedOnce ==
  /\ [](\A id \in DOMAIN catalog_fetches :
          catalog_fetches[id] = 1 /\ id \in DOMAIN reports_cache)
  /\ [][\A id \in DOMAIN reports_cache :
          id \in DOMAIN reports_cache' /\ reports_cache'[id] = reports_cache[id]]_vars

\* In the second cycle a report of the first application is resolved from
\* the catalog its first cycle fetched.
C15_Witness ==
  /\ cycles = 2 /\ app_idx = 1 /\ pc = "scan"
  /\ last_cycle.done = 1 /\ last_cycle.vendor[1].api_up /\ 1 \notin last_cycle.raised
  /\ "req-1" \in DOMAIN catalog_fetches
  /\ catalog_fetches["req-1"] = 1

\* C16: every report request whose catalog the collector has fetched is an
\* ONGOING request of the application.
C16_OnlyOngoing ==
  \A id \in DOMAIN reports_cache :
    \E r \in Range(vendor[app_idx].requests) : r.id = id /\ r.accessType = "ONGOING"

ApiFunctions == { "_asc_api_call" } \cup AscFunctions
Ended == call.pc \in { "returned", "raised", "exited" }

\* C17: a call whose first request is answered 429 and whose second request
\* succeeds returns the second body after exactly two requests and one wait
\* of 2^0 seconds.
C17_RetriesOn429 ==
  ( /\ call.fn = "_asc_api_call" /\ Ended
    /\ call.retries >= 2
    /\ call.script[1].kind = "http_error" /\ call.script[1].status = 429
    /\ call.script[2] = Ok )
  => /\ call.pc = "returned"
     /\ call.body = 2
     /\ Len(call.requests) = 2
     /\ call.slept = << 1 >>

\* C18: a request answered 403 is the last request of its call, which then
\* has raised (_asc_api_call) or ended the process (asc_get, asc_post,
\* asc_delete) without a wait after that request.
C18_ForbiddenNotRetried ==
  call.fn \in ApiFunctions =>
    \A k \in 1..Len(call.requests) :
      call.script[k].status = 403 =>
        /\ k = Len(call.requests)
        /\ call.pc = IF call.fn = "_asc_api_call" THEN "raised" ELSE "exited"
        /\ Len(call.slept) = k - 1

\* _asc_api_call has raised after a single request answered 403, without
\* sleeping, with two attempts left.
C18_Witness ==
  /\ call.fn = "_asc_api_call" /\ call.pc = "raised"
  /\ call.retries = 3
  /\ call.script[1] = HttpError(403)
  /\ Len(call.requests) = 1
  /\ call.slept = << >>

\* C19: a call makes at most `retries` requests, has raised when it ends
\* without a successful request, and the waits after its connection errors
\* and timeouts grow from one attempt to the next.
C19_BoundedBackoff ==
  call.fn \in ApiFunctions =>
    /\ Len(call.requests) <= call.retries
    /\ (Ended /\ \A k \in 1..Len(call.requests) : call.script[k] # Ok) =>
         call.pc \in { "raised", "exited" }
    /\ \A a, b \in 1..Len(call.slept) :
         ( /\ a < b
           /\ call.script[a].kind \in { "connection", "timeout" }
           /\ call.script[b].kind \in { "connection", "timeout" } )
         => call.slept[a] < call.slept[b]

\* C20: no two authenticated requests of a call of the exporter carry the
\* same token.
C20_FreshTokens ==
  call.fn \in { "_asc_api_call", "_download_report_segments" } =>
    \A i, j \in 1..Len(call.requests) : i # j => call.requests[i] # call.requests[j]

\* The host of API_BASE (line 106), the vendor's own API host.
VendorApiHost == "api.appstoreconnect.apple.com"

\* The first GET of the segment failed in a way that calls for a second GET
\* without the credential.
SecondGetDue ==
  /\ call.first.kind = "http_error"
  /\ IF call.host = VendorApiHost
       THEN call.first.status \in { 401, 403 }
       ELSE 400 <= call.first.status /\ call.first.status < 500

\* C21: a segment costs at most two GETs; the second one is sent, without
\* the Authorization header, exactly when the first failed with 401 or 403
\* on the vendor API host or with a 4xx on another host; a failed second GET
\* and any other failure of the first skip the segment.
C21_OneRetryWithoutAuth ==
  (call.fn = "segment" /\ call.pc # "get") =>
    /\ Len(call.gets) <= 2
    /\ (call.pc = "retry" \/ Len(call.gets) = 2) <=> SecondGetDue
    /\ Len(call.gets) = 2 => ~call.gets[2].auth
    /\ (call.first.kind # "ok" /\ ~SecondGetDue) => call.pc = "skipped"
    /\ (Len(call.gets) = 2 /\ call.second.kind # "ok") => call.pc = "skipped"

\* C22: a GET of a segment carries the bearer token only when the host of
\* the segment url is the vendor's own API host.
C22_TokenOnlyToVendor ==
  call.fn = "segment" =>
    \A k \in 1..Len(call.gets) : call.gets[k].auth => call.host = VendorApiHost

\* The first encoding of `order` that decodes the data is the one used.
FirstDecoding(order) ==
  \E k \in 1..Len(order) :
    /\ call.encoding = order[k]
    /\ Decodes(call.data, order[k])
    /\ \A j \in 1..(k - 1) : ~Decodes(call.data, order[j])

C30_GunzipFailureFallsBack ==
  (call.fn = "segment" /\ call.gunzip \notin { "not_tried", "none" }) =>
    /\ call.pc = "parsed"
    /\ call.data = IF call.payload.gzip = "plain" THEN call.payload.text ELSE "gzip_bytes"

\* The entries of the store that belong to a configured metric.
MetricEntries ==
  { e \in Range(metrics_data) : e.kind = "tuple" /\ e.key[1] \in MetricNames }
MetricOf(e) == CHOOSE i \in 1..Len(METRICS) : METRICS[i].prom_name = e.key[1]

\* C23: the snapshot holds the sample line of an entry of a configured
\* metric exactly when the entry's value is positive, no sample line shows
\* a value that is not positive, and the store is the one the call found.
C23_PositiveValuesOnly ==
  (call.fn = "_format_prometheus_output" /\ call.pc = "returned") =>
    /\ metrics_data = call.store
    /\ \A e \in MetricEntries :
         (\E k \in 1..Len(call.lines) : call.lines[k] = SampleLine(METRICS[MetricOf(e)], e))
           <=> e.value > 0
    /\ \A k \in 1..Len(call.lines) :
         call.lines[k].value <= 0 =>
           call.lines[k].text = "" \/ SubSeq(call.lines[k].text, 1, 1) = "#"

\* A snapshot was rendered from a store that holds an entry with value 0 and
\* an entry with a positive value.
C23_Witness ==
  /\ call.fn = "_format_prometheus_output" /\ call.pc = "returned"
  /\ \E e \in MetricEntries : e.value = 0
  /\ \E e \in MetricEntries :
       /\ e.value > 0
       /\ \E k \in 1..Len(call.lines) : call.lines[k] = SampleLine(METRICS[MetricOf(e)], e)

\* C28: the timestamp of a sample is midnight UTC, in milliseconds, of the
\* date in its key, or of the current day when that date does not parse.
C28_MidnightUtc ==
  \A e \in MetricEntries :
    LET day == ParseIsoDate(e.key[Len(e.key)])
    IN e.ts = (IF day # Unparseable THEN day ELSE now \div SecondsPerDay)
                * SecondsPerDay * 1000

\* C24: /healthz answers 503 "not ready" before any cycle has completed, 200
\* after a cycle in which no application failed, an answer that differs
\* from the healthy one and carries the last error after a cycle in which
\* some but not all applications failed, and 503 "unhealthy" with the last
\* error when healthy is false after a completed cycle.
C24_TriState ==
  /\ [](health_state.collections_count = 0 =>
          Healthz(health_state) =
            [status |-> 503, body |-> "not ready - no collections completed yet"])
  /\ []((health_state.collections_count > 0 /\ ~health_state.healthy) =>
          Healthz(health_state) =
            [status |-> 503, body |-> "unhealthy - " \o Str(health_state.last_error)])
  /\ [][(pc = "health" /\ pc' = "wait") =>
          LET k == Cardinality(raised_apps)
              answer == Healthz(health_state')
          IN /\ k = 0 => answer = [status |-> 200, body |-> "ok"]
             /\ (0 < k /\ k < Len(APPS)) =>
                  /\ answer # [status |-> 200, body |-> "ok"]
                  /\ Contains(answer.body, health_state'.last_error)]_vars

\* C27: a step that changes the samples of the store is a step of the export
\* loop, taken when every listed instance inside the window has been
\* downloaded and the pooled rows hold no two rows with the same
\* cross-instance key; and every export is for a row of that pool.
C27_ScanBeforeExport ==
  /\ [][Samples(metrics_data') # Samples(metrics_data) =>
          /\ pc = "rows"
          /\ \A inst \in Range(Listed) : InsideWindow(inst) => inst.id \in Range(scanned)
          /\ \A i, j \in 1..Len(pad.all_rows) :
               i # j => InstanceUniqueKey(pad.all_rows[i]) # InstanceUniqueKey(pad.all_rows[j])]_vars
  /\ [](\A e \in 1..Len(exports) : exports[e].row \in Range(pad.all_rows))

\* The first sample of a call is in the store after two instances were
\* downloaded and a repeated row of the second one was dropped.
C27_Witness ==
  /\ pc = "rows"
  /\ Len(scanned) = 2
  /\ Len(pad.all_rows) < Len(PooledRows)
  /\ Len(exports) = 1
  /\ Samples(metrics_data) # << >>

\* A cycle is in flight.
InFlight == pc \notin { "loop", "wait", "stopped" }

C26_NoLockAcrossNetwork ==
  /\ threads.collector.pos \in Range(NetworkPositions) =>
       (locks.metrics # "collector" /\ locks.health # "collector")
  /\ locks.metrics = "collector" =>
       threads.collector.pos \in { "clearing", "writing", "counting", "stamping" }
  /\ locks.health = "collector" =>
       threads.collector.pos \in { "judging", "stamp", "stamping", "failing" }
  /\ locks.metrics = "scraper" <=> threads.scraper = "rendering"
  /\ locks.health = "prober" <=> threads.prober = "reading"

\* A segment download of the second application is in progress while a
\* reader renders the store and another reads the health state.
C26_Witness ==
  /\ threads.collector.pos = "download"
  /\ threads.collector.app = 2
  /\ locks.metrics = "scraper"
  /\ locks.health = "prober"

\* C31: a gzip-compressed UTF-16 payload is decoded into the same rows as
\* the uncompressed UTF-8 payload of the same text.
C31_Utf16GzipSameRows ==
  (/\ call.fn = "content"
   /\ call.pc = "parsed"
   /\ call.gzipped
   /\ call.encoding \in { "utf-16", "utf-16le", "utf-16be-bom" })
  => call.parsed_rows =
       SegmentContentRows(Encode(call.text, "utf-8"), "", SegmentIds[1])

\* The rows of the listed instances inside the window.
WindowRows ==
  UNION { Range(inst.rows) : inst \in { i \in Range(Listed) : InsideWindow(i) } }

\* C32: no exception leaves the deduplication step, and when a call whose
\* window holds a malformed row has returned, every well-formed row of the
\* window that has a non-negative value, every label and passes the filter
\* has an export with its Dimensional Key.
C32_MalformedRowDroppedAlone ==
  /\ pc # "failed"
  /\ (pc = "returned" /\ \E bad \in WindowRows : NoneKey \in DOMAIN bad) =>
       \A row \in WindowRows :
         ( /\ NoneKey \notin DOMAIN row
           /\ HasValue(row) /\ ExtractNumber(row[ValueCol]) >= 0
           /\ MissingLabels(row, METRICS[metric_idx].key) = {}
           /\ ~RowFiltered(row, METRICS[metric_idx].row_filter) )
         => \E e \in 1..Len(exports) :
              DimensionalKey(exports[e].row) = DimensionalKey(row)

\* C33: every export carries, as its date and as the last part of its store
\* key, the first non-empty of the row's Date, its Processing Date, the
\* start date of its segment and the processing date of a scanned instance
\* that holds the row, cut to 10 characters.
C33_EffectiveDate ==
  \A e \in 1..Len(exports) :
    \E inst \in Range(Listed) :
      /\ inst.id \in Range(scanned)
      /\ exports[e].row \in Range(inst.rows)
      /\ exports[e].date = DateVal(exports[e].row, inst.processingDate)
      /\ exports[e].key[Len(exports[e].key)] = exports[e].date

\* C34: the instances a call has downloaded so far are the first of the
\* listed instances inside the window, in the order of the listing.
C34_ListingOrder ==
  LET wanted_instances == SelectSeq(Listed, InsideWindow)
  IN /\ Len(scanned) <= Len(wanted_instances)
     /\ \A i \in 1..Len(scanned) : scanned[i] = wanted_instances[i].id

\* The last-collection entries of a store.
StampEntries(store) ==
  SelectSeq(store, LAMBDA e : e.kind = "str" /\ e.key = << LAST_COLLECTION_METRIC >>)

\* C35: a last-collection entry in the store carries the time of the last
\* cycle that ended with an application collected, and the health update
\* of a cycle in which every application raised leaves the entries as they
\* were.
C35_StampOfLastSuccess ==
  /\ [](\A i \in 1..Len(StampEntries(metrics_data)) :
          StampEntries(metrics_data)[i].value = health_state.last_successful_collection)
  /\ [][(pc = "health" /\ collection_errors = Len(APPS)) =>
          StampEntries(metrics_data') = StampEntries(metrics_data)]_vars

\* The last export of the running call with the key.
LastExportWithKey(key) ==
  exports[CHOOSE i \in 1..Len(exports) :
            /\ exports[i].key = key
            /\ \A j \in (i + 1)..Len(exports) : exports[j].key # key]

\* C36: for every key exported by a call, whether by one row or by rows
\* with different Dimensional Keys, the store holds one entry, with the
\* value of the last export with that key; the samples of the store are as
\* many as the distinct keys exported, never more than the exports.
C36_LastExportWins ==
  /\ \A e \in 1..Len(exports) :
       LET at == StoreIndex(metrics_data, "tuple", exports[e].key)
       IN /\ Cardinality(at) = 1
          /\ \A i \in at : metrics_data[i].value = LastExportWithKey(exports[e].key).value
  /\ Len(Samples(metrics_data)) = Cardinality({ exports[e].key : e \in 1..Len(exports) })
  /\ Len(Samples(metrics_data)) <= Len(exports)

\* Two rows with different Dimensional Keys and different values were
\* exported under one store key: the store holds one sample, with the value
\* of the second, for two exports.
C36_Witness ==
  /\ Len(exports) = 2
  /\ DimensionalKey(exports[1].row) # DimensionalKey(exports[2].row)
  /\ exports[1].key = exports[2].key
  /\ exports[1].value # exports[2].value
  /\ Len(Samples(metrics_data)) = 1
  /\ Samples(metrics_data)[1].value = exports[2].value
  /\ Samples(metrics_data)[1].value # exports[1].value + exports[2].value

\* The key of a row of the running schema group.
KeyInGroup(row) ==
  SchemaUniqueKey(row, pad.groups[pad.gi].schema_cols, ValueCol, DateVal(row, ""))

\* The rows of the running group before the current one that have a value,
\* negative or not, and the key of the current row.
EarlierValued ==
  { j \in 1..(pad.ri - 1) :
      /\ ~NoValue(pad.groups[pad.gi].rows[j])
      /\ KeyInGroup(pad.groups[pad.gi].rows[j]) = KeyInGroup(CurrentRow) }

\* C37: inside a schema group the seen keys are the keys of the earlier
\* rows that have a value, whatever its sign, and of no row with an empty
\* value; a row after a valued row with its key is not exported, and a row
\* with a non-negative value after none is exported.
C37_SeenBeforeSignCheck ==
  /\ [](pc = "rows" =>
          pad.schema_seen_keys =
            { KeyInGroup(pad.groups[pad.gi].rows[j]) :
                j \in { i \in 1..(pad.ri - 1) : ~NoValue(pad.groups[pad.gi].rows[i]) } })
  /\ [][pc = "rows" =>
          /\ EarlierValued # {} => exports' = exports
          /\ (EarlierValued = {} /\ ~NoValue(CurrentRow)
                /\ ExtractNumber(Get(CurrentRow, ValueCol)) >= 0) =>
               /\ Len(exports') = Len(exports) + 1
               /\ exports'[Len(exports')].row = CurrentRow]_vars

\* A call pooled a row with an empty value, a row with a negative value and
\* a row with the value 5, all with one Dimensional Key, and returned
\* without an export: the second row suppressed the third.
C37_Witness ==
  /\ pc = "returned"
  /\ pad.all_rows = << DownloadsRow(DayMinus2, ""), DownloadsRow(DayMinus2, "-3"),
                       DownloadsRow(DayMinus2, "5") >>
  /\ exports = << >>

\* C38: healthy implies a counted cycle and a recorded success; the count
\* grows by 1 in the health update of a run that returns and changes in no
\* other step; a recorded success is never cleared nor set back.
C38_HealthCounters ==
  /\ [](health_state.healthy =>
          /\ health_state.collections_count >= 1
          /\ health_state.last_successful_collection # NoneTime)
  /\ [][health_state'.collections_count =
          IF pc = "health" /\ pc' = "wait"
            THEN health_state.collections_count + 1
            ELSE health_state.collections_count]_vars
  /\ [][health_state.last_successful_collection # NoneTime =>
          /\ health_state'.last_successful_collection # NoneTime
          /\ health_state'.last_successful_collection
               >= health_state.last_successful_collection]_vars

\* The third run has returned with a success after a run that raised: two
\* runs are counted for three cycles and the success is the latest one.
C38_Witness ==
  /\ pc = "wait"
  /\ cycles = 3
  /\ health_state.collections_count = 2
  /\ health_state.healthy
  /\ health_state.last_successful_collection = now

\* C39: the page loop ends only on a page without links.next or on a failed
\* fetch of a next page, the data of every page read is then in
\* segments_data, and the loop ends in every behaviour.
C39_PageLoopTerminates ==
  /\ [][(call.pc # "listed" /\ call'.pc = "listed") =>
          /\ \/ call.pc = "extend" /\ call.links[call.page] = NoPage
             \/ call.pc = "fetch" /\ ~call.ok[call.links[call.page]]
          /\ call'.segments_data[call.page] >= 1]_vars
  /\ <>(call.pc = "listed")

\* The threads, the locks a thread holds and the lock its next step waits
\* for.
Threads == { "collector", "scraper", "prober" }
Holds(t) == { lock \in DOMAIN locks : locks[lock] = t }
WaitsFor(t) ==
  CASE t = "collector" ->
         IF threads.collector.pos \in { "loop", "export", "except", "stamp" }
           THEN { "metrics" }
         ELSE IF threads.collector.pos \in { "judge", "failed" } THEN { "health" }
         ELSE {}
    [] t = "scraper" -> IF threads.scraper = "idle" THEN { "metrics" } ELSE {}
    [] t = "prober" -> IF threads.prober = "idle" THEN { "health" } ELSE {}

\* The positions inside a `with` section.
InSection(t) ==
  CASE t = "collector" ->
         threads.collector.pos \in
           { "clearing", "writing", "counting", "judging", "stamp", "stamping", "failing" }
    [] t = "scraper" -> threads.scraper = "rendering"
    [] t = "prober" -> threads.prober = "reading"

\* C40: no thread waits for a lock that it holds or whose holder waits, in
\* turn, for a lock of the first; a thread that waits for the health lock
\* holds no lock, so the two locks nest only as health then store; and a
\* thread outside every section, however it left one, holds no lock.
C40_NoDeadlock ==
  /\ \A t, u \in Threads :
       \A l \in WaitsFor(t) : l \in Holds(u) => WaitsFor(u) \cap Holds(t) = {}
  /\ \A t \in Threads : WaitsFor(t) \cap Holds(t) = {}
  /\ \A t \in Threads : "health" \in WaitsFor(t) => Holds(t) = {}
  /\ \A t \in Threads : ("metrics" \in WaitsFor(t) /\ Holds(t) # {}) => Holds(t) = { "health" }
  /\ \A t \in Threads : ~InSection(t) => Holds(t) = {}

\* The collector holds the health lock and waits for the store lock, which
\* a reader of /metrics holds, while a reader of /healthz waits for the
\* health lock.
C40_Witness ==
  /\ threads.collector.pos = "stamp"
  /\ locks.health = "collector"
  /\ locks.metrics = "scraper"
  /\ threads.prober = "idle"

====
